---- MODULE Spec2Model ----
(***************************************************************************)
(* Feed ranking, cache invalidation, engagement recording and dynamic role *)
(* computation of the devoci.in API (apps/api/src).                        *)
(*                                                                         *)
(* Numbers.  Role weights are JavaScript numbers with two decimals; the   *)
(* model keeps them as integers in hundredths (0.05 is 5, 1 is 100).       *)
(* Math.round(x) is floor(x + 1/2), written with \div on exact rationals.  *)
(* An IEEE double differs from the exact value by far less than any        *)
(* non-tie distance to a half, so only an exact tie (x = k + 1/2) can      *)
(* round differently in the code (0.7 * 0.05 * 100 is 3.4999999999999996   *)
(* and rounds to 3).  Both outcomes of a tie are modelled: the operators   *)
(* that round take tieUp, which the calling action draws from BOOLEAN.     *)
(***************************************************************************)
EXTENDS Integers, Sequences, FiniteSets, TLC

VARIABLES
    users,        \* User collection: userId -> document
    articles,     \* Article collection: _id -> document
    engagements,  \* Engagement collection: row kind -> number of such rows
    cacheStore,   \* Redis: key -> value
    redisUp,      \* whether Redis commands succeed
    env,          \* what the platform fixes: rounding of ties, $group order
    calls,        \* the request handlers in flight, one per process
    batch,        \* the run of roleService.updateAllUserRoles in flight
    history,      \* the finished runs of updateAllUserRoles
    lastUpdate,   \* the last call of roleService.updateUserRoles and its result
    jobs,         \* number of 'compute-user' jobs processed
    started,      \* number of request handlers called so far
    invalidated,  \* ghost: per user, the last profile write whose feed
                  \* invalidation has completed
    viewCalls     \* ghost: per user and article, the completed viewArticle calls

vars == <<users, articles, engagements, cacheStore, redisUp, env, calls, batch,
          history, lastUpdate, jobs, started, invalidated, viewCalls>>

\* ------------------------------------------------------------------ sets
Users == {"u1", "u2"}
\* an id no User document has
UnknownUser == "u0"
ArticleIds == {1, 2}
Procs == {"p1", "p2"}
EngTypes == {"VIEW", "SAVE", "SHARE"}
\* the role tags the articles of the model carry; DESIGN is not in VALID_ROLES
ModelRoles == {"FRONTEND", "DEVOPS", "DESIGN"}

\* bounds
MaxRuns == 2
MaxJobs == 2
MaxCalls == 2
MaxDaysOld == 8     \* time passes until article 1 is this many days old
MaxUnsaves == 76    \* toggleSave(id, false) calls an article's saves may go below 0
MaxSaves == 1       \* toggleSave(id, true) calls counted per article
MaxViews == 1       \* incrementViews calls counted per article
MaxCount == 5      \* increments of one rate-limit counter

\* context.ts:135
VALID_ROLES == {"FRONTEND", "BACKEND", "DEVOPS", "ML", "MOBILE", "DATA", "SECURITY"}
\* context.ts:132 (0.7, in hundredths)
SMOOTHING_FACTOR == 70
\* context.ts:221 and 255 (0.05, in hundredths)
MIN_WEIGHT == 5

\* ------------------------------------------------------------ sequences
RECURSIVE SumWeights(_)
SumWeights(s) == IF s = <<>> THEN 0 ELSE Head(s).weight + SumWeights(Tail(s))

RolesOf(s) == {s[i].role : i \in DOMAIN s}

\* Array.prototype.find(r => r.role === role): the weight of the first
\* entry with that role, 0 when there is none (the code's `|| 0`).
WeightOf(s, role) ==
    IF \E i \in DOMAIN s : s[i].role = role
    THEN s[CHOOSE i \in DOMAIN s :
              s[i].role = role /\ \A j \in DOMAIN s : s[j].role = role => i <= j].weight
    ELSE 0

\* Array.prototype.sort((a, b) => b.weight - a.weight): stable, descending.
RECURSIVE InsertByWeight(_, _)
InsertByWeight(sorted, r) ==
    IF sorted = <<>> THEN <<r>>
    ELSE IF Head(sorted).weight >= r.weight
         THEN <<Head(sorted)>> \o InsertByWeight(Tail(sorted), r)
         ELSE <<r>> \o sorted

RECURSIVE SortByWeightDesc(_)
SortByWeightDesc(s) ==
    IF s = <<>> THEN <<>>
    ELSE InsertByWeight(SortByWeightDesc(SubSeq(s, 1, Len(s) - 1)), s[Len(s)])

\* Math.round(n / d) for d > 0; an exact tie goes up when tieUp, else down
RoundDiv(n, d, tieUp) ==
    IF (2 * n + d) % (2 * d) = 0 /\ ~tieUp
    THEN ((2 * n + d) \div (2 * d)) - 1
    ELSE (2 * n + d) \div (2 * d)

\* The orders in which a set of values can be listed
Orderings(S) ==
    {s \in [1..Cardinality(S) -> S] : \A i, j \in 1..Cardinality(S) : s[i] = s[j] => i = j}

\* ------------------------------------------------------ relevance scorer
UpperCase == <<"A", "B", "C", "D", "E", "F", "G", "H", "I", "J", "K", "L", "M",
               "N", "O", "P", "Q", "R", "S", "T", "U", "V", "W", "X", "Y", "Z">>
LowerCase == <<"a", "b", "c", "d", "e", "f", "g", "h", "i", "j", "k", "l", "m",
               "n", "o", "p", "q", "r", "s", "t", "u", "v", "w", "x", "y", "z">>

\* String.prototype.toLowerCase on a string kept as a sequence of characters
toLowerCase(str) ==
    [i \in DOMAIN str |->
        IF \E k \in DOMAIN UpperCase : UpperCase[k] = str[i]
        THEN LowerCase[CHOOSE k \in DOMAIN UpperCase : UpperCase[k] = str[i]]
        ELSE str[i]]

\* String.prototype.includes
includes(str, part) ==
    \E i \in 0..(Len(str) - Len(part)) : SubSeq(str, i + 1, i + Len(part)) = part

\* calculateRoleAlignment with `score -=` for `score +=`
calculateRoleAlignment_subtracts(userRoles, articleRoles) ==
    LET products == [i \in DOMAIN userRoles |->
                        [weight |-> userRoles[i].weight
                                    * WeightOf(articleRoles, userRoles[i].role)]]
        score == 0 - SumWeights(products)
    IN IF score < 10000 THEN score ELSE 10000

\* feedService.calculateRoleAlignment, in 1/10000
calculateRoleAlignment(userRoles, articleRoles) ==
    LET products == [i \in DOMAIN userRoles |->
                        [weight |-> userRoles[i].weight
                                    * WeightOf(articleRoles, userRoles[i].role)]]
        score == SumWeights(products)
    IN IF score < 10000 THEN score ELSE 10000

\* feedService.calculateTagMatch as the fraction [num, den]
calculateTagMatch(userTopics, articleTags) ==
    LET matches == SelectSeq(userTopics, LAMBDA topic :
                      \E t \in DOMAIN articleTags :
                          \/ includes(toLowerCase(articleTags[t]), toLowerCase(topic))
                          \/ includes(toLowerCase(topic), toLowerCase(articleTags[t])))
    IN IF Len(userTopics) = 0 \/ Len(articleTags) = 0
       THEN [num |-> 0, den |-> 1]
       ELSE [num |-> Len(matches),
             den |-> IF Len(userTopics) >= Len(articleTags)
                     THEN Len(userTopics) ELSE Len(articleTags)]

\* feedService.calculateFreshness, in hundredths; the age is in whole days
calculateFreshness(article) ==
    IF ~article.hasPublishedAt THEN 50
    ELSE IF article.daysOld <= 7 THEN 100
    ELSE IF article.daysOld <= 14 THEN 80
    ELSE IF article.daysOld <= 30 THEN 50
    ELSE 20

\* feedService.calculateEngagement, in 1/10000:
\* min(views/1000, 1) * 0.4 + min(saves/100, 1) * 0.6
calculateEngagement(article) ==
    LET viewScore == IF article.views < 1000 THEN article.views ELSE 1000
        saveScore == IF article.saves < 100 THEN article.saves ELSE 100
    IN viewScore * 4 + saveScore * 60

\* calculateRelevanceScore with the factors of roleScore and tagScore exchanged
calculateRelevanceScore_weightsSwapped(user, article, tieUp) ==
    LET roleScore == calculateRoleAlignment(user.dynamicRoles, article.targetRoles)
        tagScore == calculateTagMatch(user.topics, article.tags)
        freshnessScore == calculateFreshness(article)
        engagementScore == calculateEngagement(article)
        num == 30 * roleScore * tagScore.den
               + 40 * 10000 * tagScore.num
               + 20 * 100 * freshnessScore * tagScore.den
               + 10 * engagementScore * tagScore.den
    IN RoundDiv(num, 10000 * tagScore.den, tieUp)

\* feedService.calculateRelevanceScore: Math.round(total * 100)
calculateRelevanceScore(user, article, tieUp) ==
    LET roleScore == calculateRoleAlignment(user.dynamicRoles, article.targetRoles)
        tagScore == calculateTagMatch(user.topics, article.tags)
        freshnessScore == calculateFreshness(article)
        engagementScore == calculateEngagement(article)
        \* total * 100 as num / (10000 * tagScore.den)
        num == 40 * roleScore * tagScore.den
               + 30 * 10000 * tagScore.num
               + 20 * 100 * freshnessScore * tagScore.den
               + 10 * engagementScore * tagScore.den
    IN RoundDiv(num, 10000 * tagScore.den, tieUp)

\* feedService.getSkillLevelRange
getSkillLevelRange(level) ==
    CASE level = "BEGINNER" -> {"BEGINNER", "INTERMEDIATE"}
      [] level = "INTERMEDIATE" -> {"BEGINNER", "INTERMEDIATE", "ADVANCED"}
      [] level = "ADVANCED" -> {"INTERMEDIATE", "ADVANCED"}
      [] OTHER -> {"BEGINNER", "INTERMEDIATE", "ADVANCED"}

\* --------------------------------------------------- role profile engine
\* $switch of the aggregation: SAVE 3, SHARE 5, default 1
EngagementWeight(type) ==
    CASE type = "SAVE" -> 3
      [] type = "SHARE" -> 5
      [] OTHER -> 1

RECURSIVE RoleWeightIn(_, _)
\* $unwind targetRoles, restricted to one role: the sum of its weights
RoleWeightIn(targetRoles, role) ==
    IF targetRoles = <<>> THEN 0
    ELSE (IF Head(targetRoles).role = role THEN Head(targetRoles).weight ELSE 0)
         + RoleWeightIn(Tail(targetRoles), role)

RECURSIVE SumOver(_, _)
SumOver(S, f) ==
    IF S = {} THEN 0
    ELSE LET x == CHOOSE y \in S : TRUE IN f[x] + SumOver(S \ {x}, f)

\* The rows the $match stage keeps: this user's VIEW/SAVE/SHARE rows in the window.
\* The stage compares userId with an ObjectId and $lookup joins articleId to
\* the article's _id, so the rows of the role engine's collection stand for
\* documents that hold both ids as ObjectId; a document holding them as
\* strings is matched by neither stage and counts as no row here.
MatchedRows(engs, userId) ==
    {k \in DOMAIN engs :
        /\ engs[k] > 0
        /\ k.userId = userId
        /\ k.recent
        /\ k.type \in {"VIEW", "SAVE", "SHARE"}}

\* $group _id: the roles some matched row's article targets
GroupedRoles(engs, arts, userId) ==
    UNION {RolesOf(arts[k.articleId].targetRoles) : k \in MatchedRows(engs, userId)}

\* $group totalWeight of one role (hundredths)
TotalWeight(engs, arts, userId, role) ==
    LET rows == MatchedRows(engs, userId)
        f == [k \in rows |->
                engs[k] * EngagementWeight(k.type)
                        * RoleWeightIn(arts[k.articleId].targetRoles, role)]
    IN SumOver(rows, f)

\* roleService.computeUserRoles; groupOrder is the order in which $group
\* returned its groups (MongoDB leaves it unspecified)
computeUserRoles(engs, arts, userId, groupOrder, tieUp) ==
    LET groups == [i \in DOMAIN groupOrder |->
                      [role |-> groupOrder[i],
                       weight |-> TotalWeight(engs, arts, userId, groupOrder[i])]]
        totalWeight == SumWeights(groups)
        valid == SelectSeq(groups, LAMBDA e : e.role \in VALID_ROLES)
        mapped == [i \in DOMAIN valid |->
                      [role |-> valid[i].role,
                       weight |-> RoundDiv(100 * valid[i].weight, totalWeight, tieUp)]]
        kept == SelectSeq(mapped, LAMBDA r : r.weight >= MIN_WEIGHT)
    IN IF Len(groups) = 0 THEN <<>>
       ELSE IF totalWeight = 0 THEN <<>>
       ELSE SortByWeightDesc(kept)

\* new Map(previous.map(r => [r.role, r.weight])).get(role) || 0: the last
\* entry of a role wins
PrevWeight(previous, role) ==
    IF \E i \in DOMAIN previous : previous[i].role = role
    THEN previous[CHOOSE i \in DOMAIN previous :
              /\ previous[i].role = role
              /\ \A j \in DOMAIN previous : previous[j].role = role => j <= i].weight
    ELSE 0

RECURSIVE KeepDecayed(_, _, _)
\* the loop `for (const prev of previous)` of smoothRoles: a role missing from
\* smoothed so far is pushed with its decayed weight when that is >= 0.05
KeepDecayed(smoothed, previous, tieUp) ==
    IF previous = <<>> THEN smoothed
    ELSE LET prev == Head(previous)
             decayedWeight == prev.weight * (100 - SMOOTHING_FACTOR)
         IN IF prev.role \notin RolesOf(smoothed) /\ decayedWeight >= MIN_WEIGHT * 100
            THEN KeepDecayed(Append(smoothed,
                                    [role |-> prev.role,
                                     weight |-> RoundDiv(decayedWeight, 100, tieUp)]),
                             Tail(previous), tieUp)
            ELSE KeepDecayed(smoothed, Tail(previous), tieUp)

\* smoothRoles with the final sort comparing a.weight - b.weight
smoothRoles_sortAscending(previous, computed, tieUp) ==
    LET smoothed == [i \in DOMAIN computed |->
                        [role |-> computed[i].role,
                         weight |-> RoundDiv(SMOOTHING_FACTOR * computed[i].weight
                                              + (100 - SMOOTHING_FACTOR)
                                                * PrevWeight(previous, computed[i].role),
                                             100, tieUp)]]
        union == KeepDecayed(smoothed, previous, tieUp)
        total == SumWeights(union)
        normalized == [i \in DOMAIN union |->
                          [role |-> union[i].role,
                           weight |-> RoundDiv(100 * union[i].weight, total, tieUp)]]
        sorted == SortByWeightDesc(normalized)
    IN IF Len(previous) = 0 THEN computed
       ELSE [i \in DOMAIN sorted |-> sorted[Len(sorted) + 1 - i]]

\* the blend with the two factors exchanged
smoothedRoles_factorsSwapped(previous, computed, tieUp) ==
    LET smoothed == [i \in DOMAIN computed |->
                        [role |-> computed[i].role,
                         weight |-> RoundDiv((100 - SMOOTHING_FACTOR) * computed[i].weight
                                              + SMOOTHING_FACTOR
                                                * PrevWeight(previous, computed[i].role),
                                             100, tieUp)]]
    IN KeepDecayed(smoothed, previous, tieUp)

\* the array `smoothed` of smoothRoles when the normalization starts: the
\* blended computed roles, then the kept roles of previous
smoothedRoles(previous, computed, tieUp) ==
    LET smoothed == [i \in DOMAIN computed |->
                        [role |-> computed[i].role,
                         weight |-> RoundDiv(SMOOTHING_FACTOR * computed[i].weight
                                              + (100 - SMOOTHING_FACTOR)
                                                * PrevWeight(previous, computed[i].role),
                                             100, tieUp)]]
    IN KeepDecayed(smoothed, previous, tieUp)

\* roleService.smoothRoles
smoothRoles(previous, computed, tieUp) ==
    LET union == smoothedRoles(previous, computed, tieUp)
        total == SumWeights(union)
        normalized == [i \in DOMAIN union |->
                          [role |-> union[i].role,
                           weight |-> RoundDiv(100 * union[i].weight, total, tieUp)]]
    IN IF Len(previous) = 0 THEN computed
       ELSE SortByWeightDesc(normalized)

\* ----------------------------------------------------------- cache store
Absent == [kind |-> "absent"]

IdStr(n) == <<"0", "1", "2", "3", "4", "5", "6", "7", "8", "9">>[n + 1]

\* cacheKeys (namespace:object:id:param), a key kept as its ':' separated parts
userFeed(userId, page) == <<"feed", "user", userId, "page", IdStr(page)>>
articleKey(articleId) == <<"article", IdStr(articleId), "data">>
userProfile(userId) == <<"user", userId, "profile">>
\* the literal `feed:user:${userId}` of roleService.updateUserRoles
feedUserKey(userId) == <<"feed", "user", userId>>

\* the windows computeAllPeriods recomputes, in the order of its loop
TrendingPeriods ==
    <<[days |-> 1, name |-> "daily"], [days |-> 7, name |-> "weekly"],
      [days |-> 30, name |-> "monthly"]>>

TrendingDays == {TrendingPeriods[i].days : i \in DOMAIN TrendingPeriods}

\* `${days}` of a template literal, for the windows in use
DaysStr(days) ==
    CASE days = 1 -> "1" [] days = 7 -> "7" [] days = 30 -> "30"

\* cacheKeys.trending with a window left out of the key
trendingKey_ignoresDays(days) == <<"trending", "articles", "7days">>

\* cacheKeys.trending: `trending:articles:${days}days`
trendingKey(days) == <<"trending", "articles", DaysStr(days) \o "days">>

\* the key literal `trending:role:${role}:${days}` of getTrendingByRole
trendingRoleKey(role, days) == <<"trending", "role", role, DaysStr(days)>>

\* the roles and windows role trending is asked for
TrendingRoles == {"FRONTEND", "DEVOPS"}

RoleTrendingDays == {7}

\* cacheTTL, in seconds
cacheTTL == [feed |-> 5 * 60, article |-> 60 * 60, trending |-> 10 * 60,
             userProfile |-> 30 * 60]

\* the counter key `ratelimit:endpoint:${operationName}:${userInfo.id}` of
\* endpointRateLimiter
rateLimitKey(operationName, id) == <<"ratelimit", "endpoint", operationName, id>>

CacheKeys ==
    {rateLimitKey("requestPasswordReset", "u1")}
    \cup {trendingRoleKey(role, days) : role \in TrendingRoles, days \in RoleTrendingDays}
    \cup {userFeed(u, p) : u \in Users, p \in {0, 1}}
    \cup {articleKey(a) : a \in ArticleIds}
    \cup {userProfile(u) : u \in Users}
    \cup {feedUserKey(u) : u \in Users}
    \cup {trendingKey(days) : days \in TrendingDays}

\* cache.get: null when the key holds nothing
cacheGet(store, key) == store[key]

\* cache.set (SETEX)
cacheSet(store, key, value) == [store EXCEPT ![key] = value]

\* cache.del of one key
cacheDel(store, key) == [store EXCEPT ![key] = Absent]

\* KEYS with the user left out of the pattern: every key under feed:user
keysMatching_anyUser(store, prefix) ==
    {k \in DOMAIN store :
        /\ store[k] # Absent
        /\ Len(k) > 2
        /\ SubSeq(k, 1, 2) = SubSeq(prefix, 1, 2)}

\* KEYS prefix:* : the keys that start with the parts of prefix and a ':'
keysMatching(store, prefix) ==
    {k \in DOMAIN store :
        /\ store[k] # Absent
        /\ Len(k) > Len(prefix)
        /\ SubSeq(k, 1, Len(prefix)) = prefix}

\* DEL key [key ...]
delKeys(store, keys) == [k \in DOMAIN store |-> IF k \in keys THEN Absent ELSE store[k]]

\* --------------------------------------------------------- feed assembly
\* .sort({ publishedAt: -1, qualityScore: -1 }); equal keys keep _id order
FetchBefore(arts, a, b) ==
    \/ arts[a].daysOld < arts[b].daysOld
    \/ arts[a].daysOld = arts[b].daysOld /\ arts[a].qualityScore > arts[b].qualityScore
    \/ arts[a].daysOld = arts[b].daysOld /\ arts[a].qualityScore = arts[b].qualityScore
       /\ a < b

RECURSIVE FetchOrder(_, _)
FetchOrder(arts, ids) ==
    IF ids = {} THEN <<>>
    ELSE LET first == CHOOSE a \in ids : \A b \in ids \ {a} : FetchBefore(arts, a, b)
         IN <<first>> \o FetchOrder(arts, ids \ {first})

\* Article.find(query).sort(...).limit(limit * 3): cursor 0 stands for no cursor
findArticles(arts, user, hasUser, cursor, limit) ==
    LET matching == {a \in DOMAIN arts :
                        /\ arts[a].qualityScore >= 7
                        /\ arts[a].isActive
                        /\ ~arts[a].isClickbait
                        /\ (cursor # 0 => a < cursor)
                        /\ (hasUser =>
                              arts[a].skillLevel \in getSkillLevelRange(user.skillLevel))}
        sorted == FetchOrder(arts, matching)
    IN SubSeq(sorted, 1, IF Len(sorted) < limit * 3 THEN Len(sorted) ELSE limit * 3)

RECURSIVE InsertByScore(_, _)
InsertByScore(sorted, r) ==
    IF sorted = <<>> THEN <<r>>
    ELSE IF Head(sorted).relevanceScore >= r.relevanceScore
         THEN <<Head(sorted)>> \o InsertByScore(Tail(sorted), r)
         ELSE <<r>> \o sorted

RECURSIVE SortByScoreDesc(_)
\* scored.sort((a, b) => b.relevanceScore - a.relevanceScore)
SortByScoreDesc(s) ==
    IF s = <<>> THEN <<>>
    ELSE InsertByScore(SortByScoreDesc(SubSeq(s, 1, Len(s) - 1)), s[Len(s)])

\* the scoring branch of getPersonalizedFeed: map, sort, slice(0, limit)
rankArticles(arts, user, fetched, limit, tieUp) ==
    LET scored == [i \in DOMAIN fetched |->
                      [id |-> fetched[i],
                       relevanceScore |->
                           calculateRelevanceScore(user, arts[fetched[i]], tieUp)]]
        sorted == SortByScoreDesc(scored)
    IN SubSeq(sorted, 1, IF Len(sorted) < limit THEN Len(sorted) ELSE limit)

\* the value cache.set stores for a feed page; writeNo (ghost) is the write
\* number of the user document the page was scored with
FeedPage(arts, user, cursor, limit, tieUp) ==
    [kind |-> "page",
     items |-> rankArticles(arts, user, findArticles(arts, user, TRUE, cursor, limit),
                            limit, tieUp),
     writeNo |-> user.writeNo]

\* ------------------------------------------------ roleService.updateUserRoles
\* the groups of the aggregation in the order the platform returns them
GroupOrderFor(engs, arts, userId, e) ==
    SelectSeq(e.groupOrder, LAMBDA role : role \in GroupedRoles(engs, arts, userId))

\* updateUserRoles without `if (computedRoles.length === 0) return null`
updateUserRoles_noEmptyCheck(us, engs, arts, store, up, userId, e) ==
    LET previousRoles == us[userId].dynamicRoles
        computedRoles == computeUserRoles(engs, arts, userId,
                                          GroupOrderFor(engs, arts, userId, e), e.tieUp)
        newRoles == smoothRoles(previousRoles, computedRoles, e.tieUp)
        saved == [us EXCEPT ![userId].dynamicRoles = newRoles,
                            ![userId].writeNo = @ + 1]
    IN IF userId \notin DOMAIN us
       THEN [outcome |-> "null", users |-> us, cacheStore |-> store,
             previousRoles |-> <<>>, computedRoles |-> <<>>, newRoles |-> <<>>]
       ELSE IF ~up
       THEN [outcome |-> "threw", users |-> saved, cacheStore |-> store,
             previousRoles |-> previousRoles, computedRoles |-> computedRoles,
             newRoles |-> newRoles]
       ELSE [outcome |-> "updated", users |-> saved,
             cacheStore |-> cacheDel(store, feedUserKey(userId)),
             previousRoles |-> previousRoles, computedRoles |-> computedRoles,
             newRoles |-> newRoles]

\* One call of roleService.updateUserRoles(userId): what it returns or throws,
\* and the User collection and the cache it leaves.
updateUserRoles(us, engs, arts, store, up, userId, e) ==
    LET previousRoles == us[userId].dynamicRoles
        computedRoles == computeUserRoles(engs, arts, userId,
                                          GroupOrderFor(engs, arts, userId, e), e.tieUp)
        newRoles == smoothRoles(previousRoles, computedRoles, e.tieUp)
        saved == [us EXCEPT ![userId].dynamicRoles = newRoles,
                            ![userId].writeNo = @ + 1]
    IN IF userId \notin DOMAIN us
       THEN [outcome |-> "null", users |-> us, cacheStore |-> store,
             previousRoles |-> <<>>, computedRoles |-> <<>>, newRoles |-> <<>>]
       ELSE IF Len(computedRoles) = 0
       THEN [outcome |-> "null", users |-> us, cacheStore |-> store,
             previousRoles |-> previousRoles, computedRoles |-> computedRoles,
             newRoles |-> <<>>]
       ELSE IF ~up
       \* User.findByIdAndUpdate has run; cache.del rejects
       THEN [outcome |-> "threw", users |-> saved, cacheStore |-> store,
             previousRoles |-> previousRoles, computedRoles |-> computedRoles,
             newRoles |-> newRoles]
       ELSE [outcome |-> "updated", users |-> saved,
             cacheStore |-> cacheDel(store, feedUserKey(userId)),
             previousRoles |-> previousRoles, computedRoles |-> computedRoles,
             newRoles |-> newRoles]

CallRecord(userId, r) ==
    [userId |-> userId, outcome |-> r.outcome, previousRoles |-> r.previousRoles,
     computedRoles |-> r.computedRoles, newRoles |-> r.newRoles]

NoCall ==
    [userId |-> "none", outcome |-> "none", previousRoles |-> <<>>,
     computedRoles |-> <<>>, newRoles |-> <<>>]

\* The 'compute-user' job of the role worker: updateUserRoles(job.data.userId)
ComputeUserJob(userId) ==
    /\ jobs < MaxJobs
    /\ LET r == updateUserRoles(users, engagements, articles, cacheStore, redisUp,
                                userId, env)
       IN /\ users' = r.users
          /\ cacheStore' = r.cacheStore
          /\ lastUpdate' = CallRecord(userId, r)
    /\ jobs' = jobs + 1
    /\ UNCHANGED <<articles, engagements, redisUp, env, calls, batch, history, started,
                   invalidated, viewCalls>>

\* --------------------------------------------- roleService.updateAllUserRoles
IdleBatch ==
    [pc |-> "idle", activeUserIds |-> <<>>, next |-> 1, usersUpdated |-> 0,
     errors |-> 0, log |-> <<>>, rolesBefore |-> <<>>]

\* Engagement.distinct('userId', { createdAt: { $gte: since } })
distinctActiveUsers(engs) ==
    {k.userId : k \in {x \in DOMAIN engs : engs[x] > 0 /\ x.recent}}

RolesSnapshot(us) == [u \in DOMAIN us |-> us[u].dynamicRoles]

\* the call up to the loop: the distinct query, the counters at 0
BatchStart ==
    /\ batch.pc = "idle"
    /\ Len(history) < MaxRuns
    /\ \E ids \in Orderings(distinctActiveUsers(engagements)) :
          batch' = [pc |-> "loop", activeUserIds |-> ids, next |-> 1,
                    usersUpdated |-> 0, errors |-> 0, log |-> <<>>,
                    rolesBefore |-> RolesSnapshot(users)]
    /\ UNCHANGED <<users, articles, engagements, cacheStore, redisUp, env, calls,
                   history, lastUpdate, jobs, started, invalidated, viewCalls>>

\* the loop body without its try / catch: a throw ends the whole call
batchAfterUser_noCatch(b, userId, outcome) ==
    IF outcome = "threw"
    THEN [b EXCEPT !.pc = "failed",
                   !.log = Append(@, [userId |-> userId, outcome |-> outcome])]
    ELSE [b EXCEPT !.next = @ + 1,
                   !.usersUpdated = IF outcome = "updated" THEN @ + 1 ELSE @,
                   !.log = Append(@, [userId |-> userId, outcome |-> outcome])]

\* the body of `for (const userId of activeUserIds)`: try / catch around one call
batchAfterUser(b, userId, outcome) ==
    [b EXCEPT !.next = @ + 1,
              !.usersUpdated = IF outcome = "updated" THEN @ + 1 ELSE @,
              !.errors = IF outcome = "threw" THEN @ + 1 ELSE @,
              !.log = Append(@, [userId |-> userId, outcome |-> outcome])]

BatchStep ==
    /\ batch.pc = "loop"
    /\ batch.next <= Len(batch.activeUserIds)
    /\ LET userId == batch.activeUserIds[batch.next]
           r == updateUserRoles(users, engagements, articles, cacheStore, redisUp,
                                userId, env)
       IN /\ users' = r.users
          /\ cacheStore' = r.cacheStore
          /\ lastUpdate' = CallRecord(userId, r)
          /\ batch' = batchAfterUser(batch, userId, r.outcome)
    /\ UNCHANGED <<articles, engagements, redisUp, env, calls, history, jobs, started,
                   invalidated, viewCalls>>

\* the return statement: { usersProcessed: activeUserIds.length, usersUpdated, errors }
batchResult(b) ==
    [usersProcessed |-> Len(b.activeUserIds), usersUpdated |-> b.usersUpdated,
     errors |-> b.errors]

BatchFinish ==
    /\ batch.pc = "loop"
    /\ batch.next > Len(batch.activeUserIds)
    /\ history' = Append(history,
                         [result |-> batchResult(batch),
                          activeUserIds |-> batch.activeUserIds,
                          log |-> batch.log,
                          rolesBefore |-> batch.rolesBefore,
                          rolesAfter |-> RolesSnapshot(users)])
    /\ batch' = IdleBatch
    /\ UNCHANGED <<users, articles, engagements, cacheStore, redisUp, env, calls,
                   lastUpdate, jobs, started, invalidated, viewCalls>>

\* ------------------------------------------------------------ environment
\* Redis becomes unreachable: every command rejects (maxRetriesPerRequest: 3)
RedisFail ==
    /\ redisUp
    /\ redisUp' = FALSE
    /\ UNCHANGED <<users, articles, engagements, cacheStore, env, calls, batch,
                   history, lastUpdate, jobs, started, invalidated, viewCalls>>

RedisRecover ==
    /\ ~redisUp
    /\ redisUp' = TRUE
    /\ UNCHANGED <<users, articles, engagements, cacheStore, env, calls, batch,
                   history, lastUpdate, jobs, started, invalidated, viewCalls>>

\* ------------------------------------------------------- initial states
\* the dynamicRoles a new User document gets (auth.ts register, User schema)
DefaultRoles ==
    <<[role |-> "FRONTEND", weight |-> 50], [role |-> "BACKEND", weight |-> 30],
      [role |-> "DEVOPS", weight |-> 20]>>

NewUser(roles) ==
    [dynamicRoles |-> roles, skillLevel |-> "BEGINNER", topics |-> <<>>, writeNo |-> 0]

NewArticle(targetRoles, daysOld, qualityScore) ==
    [targetRoles |-> targetRoles, tags |-> <<>>, hasPublishedAt |-> TRUE,
     daysOld |-> daysOld, qualityScore |-> qualityScore, skillLevel |-> "BEGINNER",
     isActive |-> TRUE, isClickbait |-> FALSE, views |-> 0, saves |-> 0, shares |-> 0]

EngKeys == [userId : Users, articleId : ArticleIds, type : EngTypes, recent : BOOLEAN]

EngKey(u, a, t, r) == [userId |-> u, articleId |-> a, type |-> t, recent |-> r]

NoEngagements == [k \in EngKeys |-> 0]

EmptyCache == [k \in CacheKeys |-> Absent]

IdleCall == [op |-> "idle", pc |-> "idle"]

\* targetRoles the scoring worker may have given article 2
TargetRoleConfigs ==
    { <<[role |-> "DESIGN", weight |-> 100]>>,
      <<[role |-> "DESIGN", weight |-> 50], [role |-> "FRONTEND", weight |-> 50]>>,
      <<[role |-> "FRONTEND", weight |-> 96], [role |-> "DEVOPS", weight |-> 4]>> }

\* orders in which $group may return the roles
GroupOrders ==
    { <<"FRONTEND", "DEVOPS", "DESIGN">>, <<"DESIGN", "DEVOPS", "FRONTEND">> }

\* the rows one user may have on one article: none, a view, a view and a
\* share, a view older than the window
RowOptions == {"none", "view", "view+share", "old view"}

RowCount(option, type, recent) ==
    CASE option = "view" -> IF type = "VIEW" /\ recent THEN 1 ELSE 0
      [] option = "view+share" -> IF type \in {"VIEW", "SHARE"} /\ recent THEN 1 ELSE 0
      [] option = "old view" -> IF type = "VIEW" /\ ~recent THEN 1 ELSE 0
      [] OTHER -> 0

\* the VIEW rows of one article, of any user and age
ViewRows(engs, a) ==
    LET rows == {k \in DOMAIN engs : k.articleId = a /\ k.type = "VIEW"}
    IN SumOver(rows, [k \in rows |-> engs[k]])

\* feed.ts:33 and feed resolvers: limit = 20 unless the request names one
DefaultLimit == 20

\* A store in which every user has activity in the last weeks and a feed page
\* cached by an earlier request.
InitRoles ==
    /\ \E r \in {DefaultRoles, <<>>} :
          users = [u \in Users |-> NewUser(IF u = "u1" THEN r ELSE DefaultRoles)]
    /\ \E opt \in [Users -> [ArticleIds -> RowOptions]] :
          /\ opt["u2"][2] = "none"
          /\ opt["u2"][1] \in {"view", "old view"}
          /\ engagements = [k \in EngKeys |->
                               RowCount(opt[k.userId][k.articleId], k.type, k.recent)]
    \* every VIEW row came with one $inc of views; shareArticle counts nothing
    /\ \E cfg \in TargetRoleConfigs :
          articles = [a \in ArticleIds |->
                        [(IF a = 1
                          THEN NewArticle(<<[role |-> "FRONTEND", weight |-> 50],
                                            [role |-> "DEVOPS", weight |-> 50]>>, 1, 8)
                          ELSE NewArticle(cfg, 2, 9))
                         EXCEPT !.views = ViewRows(engagements, a)]]
    /\ env \in [tieUp : BOOLEAN, groupOrder : GroupOrders]
    /\ cacheStore = [k \in CacheKeys |->
                        IF \E u \in Users : k = userFeed(u, 0)
                        THEN LET u == CHOOSE v \in Users : k = userFeed(v, 0)
                             IN FeedPage(articles, users[u], 0, DefaultLimit, env.tieUp)
                        ELSE Absent]
    /\ redisUp = TRUE
    /\ calls = [p \in Procs |-> IdleCall]
    /\ batch = IdleBatch
    /\ history = <<>>
    /\ lastUpdate = NoCall
    /\ jobs = 0
    /\ started = 0
    /\ invalidated = [u \in Users |-> 0]
    /\ viewCalls = [u \in Users |-> [a \in ArticleIds |-> 0]]

\* the weekly 'compute-all' job, run after run
NextRoles ==
    \/ BatchStart
    \/ BatchStep
    \/ BatchFinish
    \/ RedisFail
    \/ RedisRecover

\* The stores the weekly job is run on: those of InitRoles in which every
\* user still has the profile given at registration, with one of the orders
\* $group may return.
InitBatch ==
    /\ InitRoles
    /\ users["u1"].dynamicRoles = DefaultRoles
    /\ env.groupOrder = <<"FRONTEND", "DEVOPS", "DESIGN">>

SpecRoles == InitBatch /\ [][NextRoles]_vars

\* 'compute-user' jobs, one after the other
NextJobs ==
    \/ \E userId \in Users \cup {UnknownUser} : ComputeUserJob(userId)
    \/ RedisFail
    \/ RedisRecover

SpecJobs == InitRoles /\ [][NextJobs]_vars

\* ------------------------------------------------------ request handlers
\* A handler in flight is calls[p]: its operation, its arguments, the await it
\* is at (pc) and its locals.  A handler that has returned or thrown stays as
\* pc = "returned" with its outcome until the process takes the next request.
Free(p) == calls[p].pc \in {"idle", "returned"}

CanStart(p) == Free(p) /\ started < MaxCalls

Returned(call, outcome, errorAt) ==
    [call EXCEPT !.pc = "returned", !.outcome = outcome, !.errorAt = errorAt]

\* cursors a feed request may carry (0: none) and limits it may name
FeedCursors == {0, 2}
FeedLimits == {DefaultLimit}

\* feedResolvers.Query.feed is called: requireAuth, then authService.getUserById
FeedStart(p, userId, cursor, limit) ==
    /\ CanStart(p)
    /\ calls' = [calls EXCEPT ![p] =
                    [op |-> "feed", pc |-> "getUser", userId |-> userId,
                     cursor |-> cursor, limit |-> limit, user |-> NewUser(<<>>),
                     result |-> Absent, outcome |-> "none", errorAt |-> "none"]]
    /\ started' = started + 1
    /\ UNCHANGED <<users, articles, engagements, cacheStore, redisUp, env, batch,
                   history, lastUpdate, jobs, invalidated, viewCalls>>

\* authService.getUserById: cache.get(user:{id}:profile)
FeedGetUser(p) ==
    /\ calls[p].op = "feed" /\ calls[p].pc = "getUser"
    /\ LET cached == cacheGet(cacheStore, userProfile(calls[p].userId))
       IN calls' = [calls EXCEPT ![p] =
                       IF ~redisUp THEN Returned(@, "error", "getUser")
                       ELSE IF cached # Absent
                       THEN [@ EXCEPT !.pc = "feedGet", !.user = cached.user]
                       ELSE [@ EXCEPT !.pc = "findUser"]]
    /\ UNCHANGED <<users, articles, engagements, cacheStore, redisUp, env, batch,
                   history, lastUpdate, jobs, started, invalidated, viewCalls>>

\* authService.getUserById: User.findById(userId).lean()
FeedFindUser(p) ==
    /\ calls[p].op = "feed" /\ calls[p].pc = "findUser"
    /\ calls' = [calls EXCEPT ![p] =
                    [@ EXCEPT !.pc = "setProfile", !.user = users[calls[p].userId]]]
    /\ UNCHANGED <<users, articles, engagements, cacheStore, redisUp, env, batch,
                   history, lastUpdate, jobs, started, invalidated, viewCalls>>

\* authService.getUserById: cache.set(user:{id}:profile, user, 30 min)
FeedSetProfile(p) ==
    /\ calls[p].op = "feed" /\ calls[p].pc = "setProfile"
    /\ IF redisUp
       THEN /\ cacheStore' = cacheSet(cacheStore, userProfile(calls[p].userId),
                                      [kind |-> "user", user |-> calls[p].user])
            /\ calls' = [calls EXCEPT ![p] = [@ EXCEPT !.pc = "feedGet"]]
       ELSE /\ calls' = [calls EXCEPT ![p] = Returned(@, "error", "getUser")]
            /\ UNCHANGED cacheStore
    /\ UNCHANGED <<users, articles, engagements, redisUp, env, batch,
                   history, lastUpdate, jobs, started, invalidated, viewCalls>>

\* feedService.getPersonalizedFeed: const page = cursor ? 1 : 0
feedPageOf(cursor) == IF cursor # 0 THEN 1 ELSE 0

\* feedService.getPersonalizedFeed: cache.get(feed key), return on a hit
FeedCacheGet(p) ==
    /\ calls[p].op = "feed" /\ calls[p].pc = "feedGet"
    /\ LET key == userFeed(calls[p].userId, feedPageOf(calls[p].cursor))
       IN calls' = [calls EXCEPT ![p] =
                       IF ~redisUp THEN Returned(@, "error", "feedGet")
                       ELSE IF cacheGet(cacheStore, key) # Absent
                       THEN [Returned(@, "ok", "none") EXCEPT
                                !.result = cacheGet(cacheStore, key)]
                       ELSE [@ EXCEPT !.pc = "find"]]
    /\ UNCHANGED <<users, articles, engagements, cacheStore, redisUp, env, batch,
                   history, lastUpdate, jobs, started, invalidated, viewCalls>>

\* feedService.getPersonalizedFeed: Article.find(...), then score, sort, slice
FeedFind(p) ==
    /\ calls[p].op = "feed" /\ calls[p].pc = "find"
    /\ calls' = [calls EXCEPT ![p] =
                    [@ EXCEPT !.pc = "feedSet",
                              !.result = FeedPage(articles, calls[p].user,
                                                  calls[p].cursor, calls[p].limit,
                                                  env.tieUp)]]
    /\ UNCHANGED <<users, articles, engagements, cacheStore, redisUp, env, batch,
                   history, lastUpdate, jobs, started, invalidated, viewCalls>>

\* feedService.getPersonalizedFeed: cache.set(feed key, result, 5 min), return
FeedCacheSet(p) ==
    /\ calls[p].op = "feed" /\ calls[p].pc = "feedSet"
    /\ IF redisUp
       THEN /\ cacheStore' = cacheSet(cacheStore,
                                      userFeed(calls[p].userId,
                                               feedPageOf(calls[p].cursor)),
                                      calls[p].result)
            /\ calls' = [calls EXCEPT ![p] = Returned(@, "ok", "none")]
       ELSE /\ calls' = [calls EXCEPT ![p] = Returned(@, "error", "feedSet")]
            /\ UNCHANGED cacheStore
    /\ UNCHANGED <<users, articles, engagements, redisUp, env, batch,
                   history, lastUpdate, jobs, started, invalidated, viewCalls>>

\* what an onboarding request may carry
OnboardingInputs ==
    { [dynamicRoles |-> <<[role |-> "DEVOPS", weight |-> 100]>>,
       skillLevel |-> "INTERMEDIATE"] }

\* authService.completeOnboarding: User.findById, the assignments, user.save()
OnboardingSave(p, userId, input) ==
    /\ CanStart(p)
    /\ users' = [users EXCEPT ![userId].dynamicRoles = input.dynamicRoles,
                              ![userId].skillLevel = input.skillLevel,
                              ![userId].writeNo = @ + 1]
    /\ calls' = [calls EXCEPT ![p] =
                    [op |-> "onboarding", pc |-> "delProfile", userId |-> userId,
                     writeNo |-> users[userId].writeNo + 1, keys |-> {},
                     outcome |-> "none", errorAt |-> "none"]]
    /\ started' = started + 1
    /\ UNCHANGED <<articles, engagements, cacheStore, redisUp, env, batch,
                   history, lastUpdate, jobs, invalidated, viewCalls>>

\* authService.completeOnboarding: cache.del(user:{id}:profile)
OnboardingDelProfile(p) ==
    /\ calls[p].op = "onboarding" /\ calls[p].pc = "delProfile"
    /\ IF redisUp
       THEN /\ cacheStore' = cacheDel(cacheStore, userProfile(calls[p].userId))
            /\ calls' = [calls EXCEPT ![p] = [@ EXCEPT !.pc = "keys"]]
       ELSE /\ calls' = [calls EXCEPT ![p] = Returned(@, "error", "delProfile")]
            /\ UNCHANGED cacheStore
    /\ UNCHANGED <<users, articles, engagements, redisUp, env, batch,
                   history, lastUpdate, jobs, started, invalidated, viewCalls>>

\* cache.delPattern(`feed:user:${userId}:*`): client.keys(pattern); with no
\* key it returns 0, which ends completeOnboarding
OnboardingKeys(p) ==
    /\ calls[p].op = "onboarding" /\ calls[p].pc = "keys"
    /\ LET keys == keysMatching(cacheStore, feedUserKey(calls[p].userId))
       IN IF ~redisUp
          THEN /\ calls' = [calls EXCEPT ![p] = Returned(@, "error", "delPattern")]
               /\ UNCHANGED invalidated
          ELSE IF keys = {}
          THEN /\ calls' = [calls EXCEPT ![p] = Returned(@, "ok", "none")]
               /\ invalidated' = [invalidated EXCEPT ![calls[p].userId] =
                                     IF @ < calls[p].writeNo THEN calls[p].writeNo ELSE @]
          ELSE /\ calls' = [calls EXCEPT ![p] = [@ EXCEPT !.pc = "del", !.keys = keys]]
               /\ UNCHANGED invalidated
    /\ UNCHANGED <<users, articles, engagements, cacheStore, redisUp, env, batch,
                   history, lastUpdate, jobs, started, viewCalls>>

\* cache.delPattern: client.del(...keys); completeOnboarding returns
OnboardingDel(p) ==
    /\ calls[p].op = "onboarding" /\ calls[p].pc = "del"
    /\ IF redisUp
       THEN /\ cacheStore' = delKeys(cacheStore, calls[p].keys)
            /\ calls' = [calls EXCEPT ![p] = Returned(@, "ok", "none")]
            /\ invalidated' = [invalidated EXCEPT ![calls[p].userId] =
                                  IF @ < calls[p].writeNo THEN calls[p].writeNo ELSE @]
       ELSE /\ calls' = [calls EXCEPT ![p] = Returned(@, "error", "delPattern")]
            /\ UNCHANGED <<cacheStore, invalidated>>
    /\ UNCHANGED <<users, articles, engagements, redisUp, env, batch,
                   history, lastUpdate, jobs, started, viewCalls>>

\* the rows and the counter a save or share call found when it was called (ghost)
CallSnapshot(userId, articleId, type, counter) ==
    [rows |-> engagements[EngKey(userId, articleId, type, TRUE)],
     counter |-> articles[articleId][counter]]

\* engagementService.saveArticle up to `await checkEngagementMilestones`
SaveStart(p, userId, articleId) ==
    /\ CanStart(p)
    /\ calls' = [calls EXCEPT ![p] =
                    [op |-> "save", pc |-> "gamification", userId |-> userId,
                     articleId |-> articleId,
                     before |-> CallSnapshot(userId, articleId, "SAVE", "saves"),
                     outcome |-> "none", errorAt |-> "none"]]
    /\ started' = started + 1
    /\ UNCHANGED <<users, articles, engagements, cacheStore, redisUp, env, batch,
                   history, lastUpdate, jobs, invalidated, viewCalls>>

\* engagementService.saveArticle: return true
SaveReturn(p) ==
    /\ calls[p].op = "save" /\ calls[p].pc = "gamification"
    /\ calls' = [calls EXCEPT ![p] = Returned(@, "ok", "none")]
    /\ UNCHANGED <<users, articles, engagements, cacheStore, redisUp, env, batch,
                   history, lastUpdate, jobs, started, invalidated, viewCalls>>

\* engagementService.shareArticle: Engagement.create({ userId, articleId, type: 'SHARE' })
ShareCreate(p, userId, articleId) ==
    /\ CanStart(p)
    /\ engagements' = [engagements EXCEPT
                          ![EngKey(userId, articleId, "SHARE", TRUE)] = @ + 1]
    /\ calls' = [calls EXCEPT ![p] =
                    [op |-> "share", pc |-> "gamification", userId |-> userId,
                     articleId |-> articleId,
                     before |-> CallSnapshot(userId, articleId, "SHARE", "shares"),
                     outcome |-> "none", errorAt |-> "none"]]
    /\ started' = started + 1
    /\ UNCHANGED <<users, articles, cacheStore, redisUp, env, batch,
                   history, lastUpdate, jobs, invalidated, viewCalls>>

\* engagementService.shareArticle: return true
ShareReturn(p) ==
    /\ calls[p].op = "share" /\ calls[p].pc = "gamification"
    /\ calls' = [calls EXCEPT ![p] = Returned(@, "ok", "none")]
    /\ UNCHANGED <<users, articles, engagements, cacheStore, redisUp, env, batch,
                   history, lastUpdate, jobs, started, invalidated, viewCalls>>

\* articleService.getById as one step: cache.get, Article.findById, cache.set
GetArticleById(articleId) ==
    /\ started < MaxCalls
    /\ redisUp
    /\ cacheGet(cacheStore, articleKey(articleId)) = Absent
    /\ cacheStore' = cacheSet(cacheStore, articleKey(articleId),
                              [kind |-> "article", article |-> articles[articleId]])
    /\ started' = started + 1
    /\ UNCHANGED <<users, articles, engagements, redisUp, env, calls, batch,
                   history, lastUpdate, jobs, invalidated, viewCalls>>

\* a key reaches its TTL
ExpireKey(key) ==
    /\ cacheStore[key] # Absent
    /\ cacheStore' = cacheDel(cacheStore, key)
    /\ UNCHANGED <<users, articles, engagements, redisUp, env, calls, batch,
                   history, lastUpdate, jobs, started, invalidated, viewCalls>>

\* The API after start-up: two registered users, two scored articles, an empty cache
Init ==
    /\ users = [u \in Users |-> NewUser(DefaultRoles)]
    /\ articles = [a \in ArticleIds |->
                      IF a = 1
                      THEN NewArticle(<<[role |-> "FRONTEND", weight |-> 50],
                                        [role |-> "DEVOPS", weight |-> 50]>>, 1, 8)
                      ELSE NewArticle(<<[role |-> "DEVOPS", weight |-> 100]>>, 2, 9)]
    /\ engagements = NoEngagements
    /\ cacheStore = EmptyCache
    /\ redisUp = TRUE
    /\ env \in [tieUp : BOOLEAN, groupOrder : {<<"FRONTEND", "DEVOPS", "DESIGN">>}]
    /\ calls = [p \in Procs |-> IdleCall]
    /\ batch = IdleBatch
    /\ history = <<>>
    /\ lastUpdate = NoCall
    /\ jobs = 0
    /\ started = 0
    /\ invalidated = [u \in Users |-> 0]
    /\ viewCalls = [u \in Users |-> [a \in ArticleIds |-> 0]]

\* feed requests, onboarding, saves and shares, interleaved at their awaits
Next ==
    \/ \E p \in Procs, userId \in Users, cursor \in FeedCursors, limit \in FeedLimits :
          FeedStart(p, userId, cursor, limit)
    \/ \E p \in Procs : FeedGetUser(p)
    \/ \E p \in Procs : FeedFindUser(p)
    \/ \E p \in Procs : FeedSetProfile(p)
    \/ \E p \in Procs : FeedCacheGet(p)
    \/ \E p \in Procs : FeedFind(p)
    \/ \E p \in Procs : FeedCacheSet(p)
    \/ \E p \in Procs, userId \in Users, input \in OnboardingInputs :
          OnboardingSave(p, userId, input)
    \/ \E p \in Procs : OnboardingDelProfile(p)
    \/ \E p \in Procs : OnboardingKeys(p)
    \/ \E p \in Procs : OnboardingDel(p)
    \/ \E p \in Procs, userId \in Users, articleId \in ArticleIds :
          SaveStart(p, userId, articleId)
    \/ \E p \in Procs : SaveReturn(p)
    \/ \E p \in Procs, userId \in Users, articleId \in ArticleIds :
          ShareCreate(p, userId, articleId)
    \/ \E p \in Procs : ShareReturn(p)
    \/ \E articleId \in ArticleIds : GetArticleById(articleId)
    \/ \E key \in CacheKeys : ExpireKey(key)
    \/ RedisFail
    \/ RedisRecover

Spec == Init /\ [][Next]_vars

\* ------------------------------------------- engagementService.viewArticle
\* Engagement.findOneAndUpdate({ userId, articleId, type: 'VIEW' }, ..., { upsert: true })
\* on a collection with no unique index: the server first looks for a matching
\* document and inserts one when it found none; the index
\* { articleId: 1, userId: 1 } is not unique, so nothing orders two upserts.
ViewMatch(p, userId, articleId) ==
    /\ CanStart(p)
    /\ calls' = [calls EXCEPT ![p] =
                    [op |-> "view", pc |-> "upsert", userId |-> userId,
                     articleId |-> articleId,
                     found |-> \E recent \in BOOLEAN :
                                  engagements[EngKey(userId, articleId, "VIEW", recent)] > 0,
                     outcome |-> "none", errorAt |-> "none"]]
    /\ started' = started + 1
    /\ UNCHANGED <<users, articles, engagements, cacheStore, redisUp, env, batch,
                   history, lastUpdate, jobs, invalidated, viewCalls>>

\* the write of the upsert: $setOnInsert on a new row when none matched; a
\* matched row only gets updatedAt, which the schema does not keep
upsertView(engs, userId, articleId, found) ==
    IF found THEN engs
    ELSE [engs EXCEPT ![EngKey(userId, articleId, "VIEW", TRUE)] = @ + 1]

ViewUpsert(p) ==
    /\ calls[p].op = "view" /\ calls[p].pc = "upsert"
    /\ engagements' = upsertView(engagements, calls[p].userId, calls[p].articleId,
                                 calls[p].found)
    /\ calls' = [calls EXCEPT ![p] = [@ EXCEPT !.pc = "inc"]]
    /\ UNCHANGED <<users, articles, cacheStore, redisUp, env, batch,
                   history, lastUpdate, jobs, started, invalidated, viewCalls>>

\* Article.findByIdAndUpdate(articleId, { $inc: { views: 1 } })
incViews(arts, articleId) == [arts EXCEPT ![articleId].views = @ + 1]

\* the $inc of viewArticle followed by a cache.del of the viewer's first page
ViewInc_invalidatesFeed(p) ==
    /\ calls[p].op = "view" /\ calls[p].pc = "inc"
    /\ articles' = incViews(articles, calls[p].articleId)
    /\ cacheStore' = cacheDel(cacheStore, userFeed(calls[p].userId, 0))
    /\ calls' = [calls EXCEPT ![p] = [@ EXCEPT !.pc = "gamification"]]
    /\ UNCHANGED <<users, engagements, redisUp, env, batch,
                   history, lastUpdate, jobs, started, invalidated, viewCalls>>

ViewInc(p) ==
    /\ calls[p].op = "view" /\ calls[p].pc = "inc"
    /\ articles' = incViews(articles, calls[p].articleId)
    /\ calls' = [calls EXCEPT ![p] = [@ EXCEPT !.pc = "gamification"]]
    /\ UNCHANGED <<users, engagements, cacheStore, redisUp, env, batch,
                   history, lastUpdate, jobs, started, invalidated, viewCalls>>

\* checkStreak and checkReadingMilestones (the fallback does nothing), return true
ViewReturn(p) ==
    /\ calls[p].op = "view" /\ calls[p].pc = "gamification"
    /\ calls' = [calls EXCEPT ![p] = Returned(@, "ok", "none")]
    /\ viewCalls' = [viewCalls EXCEPT ![calls[p].userId][calls[p].articleId] = @ + 1]
    /\ UNCHANGED <<users, articles, engagements, cacheStore, redisUp, env, batch,
                   history, lastUpdate, jobs, started, invalidated>>

\* view requests, interleaved at their awaits
NextView ==
    \/ \E p \in Procs, userId \in Users, articleId \in ArticleIds :
          ViewMatch(p, userId, articleId)
    \/ \E p \in Procs : ViewUpsert(p)
    \/ \E p \in Procs : ViewInc(p)
    \/ \E p \in Procs : ViewReturn(p)

SpecView == Init /\ [][NextView]_vars

\* ------------------------------------------- roleService.smoothRoles, called
\* The profiles smoothRoles is called with: one to three of these roles,
\* weights in steps of 0.05 and thirds, summing to 1, sorted descending.
ProfileRoles == {"FRONTEND", "BACKEND", "DEVOPS"}
ProfileWeights == {5, 10, 15, 20, 25, 30, 33, 34, 35, 40, 45, 50,
                   55, 60, 65, 66, 67, 70, 75, 80, 85, 90, 95, 100}

Profiles ==
    {<<[role |-> r, weight |-> 100]>> : r \in ProfileRoles}
    \cup {<<[role |-> r[1], weight |-> w], [role |-> r[2], weight |-> 100 - w]>> :
             r \in {q \in ProfileRoles \X ProfileRoles : q[1] # q[2]},
             w \in {v \in ProfileWeights : 100 - v \in ProfileWeights /\ v >= 100 - v}}
    \cup {<<[role |-> r[1], weight |-> w[1]], [role |-> r[2], weight |-> w[2]],
            [role |-> r[3], weight |-> 100 - w[1] - w[2]]>> :
             r \in {q \in ProfileRoles \X ProfileRoles \X ProfileRoles :
                       q[1] # q[2] /\ q[1] # q[3] /\ q[2] # q[3]},
             w \in {v \in ProfileWeights \X ProfileWeights :
                       /\ 100 - v[1] - v[2] \in ProfileWeights
                       /\ v[1] >= v[2] /\ v[2] >= 100 - v[1] - v[2]}}

\* no request, job or batch run in flight, nothing stored but users and articles
NothingRunning ==
    /\ engagements = NoEngagements
    /\ cacheStore = EmptyCache
    /\ redisUp = TRUE
    /\ calls = [p \in Procs |-> IdleCall]
    /\ batch = IdleBatch
    /\ history = <<>>
    /\ jobs = 0
    /\ started = 0
    /\ invalidated = [u \in Users |-> 0]
    /\ viewCalls = [u \in Users |-> [a \in ArticleIds |-> 0]]

\* the arguments of one call roleService.smoothRoles(previous, computed)
InitSmooth ==
    /\ NothingRunning
    /\ users = [u \in Users |-> NewUser(DefaultRoles)]
    /\ articles = [a \in ArticleIds |-> NewArticle(<<>>, a, 8)]
    /\ env \in [tieUp : BOOLEAN, groupOrder : {<<"FRONTEND", "DEVOPS", "DESIGN">>}]
    /\ \E previous \in Profiles, computed \in Profiles :
          lastUpdate = [userId |-> "none", outcome |-> "called",
                        previousRoles |-> previous, computedRoles |-> computed,
                        newRoles |-> <<>>]

Smoothed(previous, computed) ==
    [userId |-> "none", outcome |-> "smoothed",
     previousRoles |-> previous, computedRoles |-> computed,
     newRoles |-> smoothRoles(previous, computed, env.tieUp)]

\* the call returns
SmoothCall ==
    /\ lastUpdate.outcome = "called"
    /\ lastUpdate' = Smoothed(lastUpdate.previousRoles, lastUpdate.computedRoles)
    /\ UNCHANGED <<users, articles, engagements, cacheStore, redisUp, env, calls, batch,
                   history, jobs, started, invalidated, viewCalls>>

\* smoothRoles applied to its own result, as previous and as computed
SmoothAgain ==
    /\ lastUpdate.outcome = "smoothed"
    /\ lastUpdate.previousRoles = lastUpdate.computedRoles
    /\ lastUpdate' = Smoothed(lastUpdate.newRoles, lastUpdate.newRoles)
    /\ UNCHANGED <<users, articles, engagements, cacheStore, redisUp, env, calls, batch,
                   history, jobs, started, invalidated, viewCalls>>

NextSmooth ==
    \/ SmoothCall
    \/ SmoothAgain

SpecSmooth == InitSmooth /\ [][NextSmooth]_vars

\* ------------------------------------------------ the relevance scorer, called
\* What Article.find hands to the scorer: the stored document.  daysOld is not
\* stored; it stands for Date.now() - publishedAt at the time of the call.
ArticleDocument(article) ==
    [targetRoles |-> article.targetRoles, tags |-> article.tags,
     hasPublishedAt |-> article.hasPublishedAt, qualityScore |-> article.qualityScore,
     skillLevel |-> article.skillLevel, isActive |-> article.isActive,
     isClickbait |-> article.isClickbait, views |-> article.views,
     saves |-> article.saves, shares |-> article.shares]

\* one call feedService.calculateRelevanceScore(user, article); it has no
\* await, so it runs from call to return in one step
ScoreArticle(p, user, articleId) ==
    /\ Free(p)
    /\ calls' = [calls EXCEPT ![p] =
                    [op |-> "score", pc |-> "returned", user |-> user,
                     articleId |-> articleId,
                     article |-> ArticleDocument(articles[articleId]),
                     daysOld |-> articles[articleId].daysOld,
                     score |-> calculateRelevanceScore(user, articles[articleId],
                                                       env.tieUp),
                     outcome |-> "ok", errorAt |-> "none"]]
    /\ UNCHANGED <<users, articles, engagements, cacheStore, redisUp, env, batch,
                   history, lastUpdate, jobs, started, invalidated, viewCalls>>

\* a day passes: Date.now() moves on, publishedAt stays
TimePasses ==
    /\ articles[1].daysOld < MaxDaysOld
    /\ articles' = [a \in ArticleIds |-> [articles[a] EXCEPT !.daysOld = @ + 1]]
    /\ UNCHANGED <<users, engagements, cacheStore, redisUp, env, calls, batch,
                   history, lastUpdate, jobs, started, invalidated, viewCalls>>

\* articleService.toggleSave(articleId, save): $inc saves by 1 or -1, then
\* cache.del of the article's key (which rejects when Redis is down)
ToggleSave(articleId, save) ==
    /\ IF save THEN articles[articleId].saves < MaxSaves
               ELSE articles[articleId].saves > 0 - MaxUnsaves
    /\ articles' = [articles EXCEPT ![articleId].saves = IF save THEN @ + 1 ELSE @ - 1]
    /\ cacheStore' = IF redisUp THEN cacheDel(cacheStore, articleKey(articleId))
                     ELSE cacheStore
    /\ UNCHANGED <<users, engagements, redisUp, env, calls, batch,
                   history, lastUpdate, jobs, started, invalidated, viewCalls>>

\* articleService.incrementViews(articleId): $inc views, then cache.del
IncrementViews(articleId) ==
    /\ articles[articleId].views < MaxViews
    /\ articles' = [articles EXCEPT ![articleId].views = @ + 1]
    /\ cacheStore' = IF redisUp THEN cacheDel(cacheStore, articleKey(articleId))
                     ELSE cacheStore
    /\ UNCHANGED <<users, engagements, redisUp, env, calls, batch,
                   history, lastUpdate, jobs, started, invalidated, viewCalls>>

\* the user objects the scorer is called with: dynamicRoles and preferences.topics
ScoreProfiles ==
    { <<>>,
      <<[role |-> "FRONTEND", weight |-> 60], [role |-> "BACKEND", weight |-> 40]>>,
      <<[role |-> "FRONTEND", weight |-> 70], [role |-> "BACKEND", weight |-> 40]>>,
      <<[role |-> "FRONTEND", weight |-> 60], [role |-> "BACKEND", weight |-> 100]>>,
      <<[role |-> "DEVOPS", weight |-> 20]>>,
      <<[role |-> "DEVOPS", weight |-> 100]>> }

ScoreTopics == { <<>>, << <<"r", "e", "a", "c", "t">> >> }

ScoreUsers == [dynamicRoles : ScoreProfiles, topics : ScoreTopics]

ScoreTags == { <<>>, << <<"R", "e", "a", "c", "t", "J", "S">> >> }

\* two articles as the scoring worker and the counters may have left them
InitScore ==
    /\ NothingRunning
    /\ lastUpdate = NoCall
    /\ users = [u \in Users |-> NewUser(DefaultRoles)]
    /\ env \in [tieUp : BOOLEAN, groupOrder : {<<"FRONTEND", "DEVOPS", "DESIGN">>}]
    /\ \E tags \in ScoreTags, age1 \in {0, 7}, age2 \in {14, 30},
          cfg \in TargetRoleConfigs, popular \in BOOLEAN :
          articles = [a \in ArticleIds |->
                        IF a = 1
                        THEN [NewArticle(<<[role |-> "FRONTEND", weight |-> 50],
                                           [role |-> "DEVOPS", weight |-> 50]>>, age1, 8)
                              EXCEPT !.tags = tags]
                        ELSE [NewArticle(cfg, age2, 9)
                              EXCEPT !.views = IF popular THEN 2000 ELSE 0,
                                     !.saves = IF popular THEN 50 ELSE 0]]

NextScore ==
    \/ \E user \in ScoreUsers, articleId \in ArticleIds :
          ScoreArticle("p1", user, articleId)
    \/ TimePasses

SpecScore == InitScore /\ [][NextScore]_vars

\* an article older than a month next to a fresh one, nothing saved yet
InitCounters ==
    /\ NothingRunning
    /\ lastUpdate = NoCall
    /\ users = [u \in Users |-> NewUser(DefaultRoles)]
    /\ env \in [tieUp : BOOLEAN, groupOrder : {<<"FRONTEND", "DEVOPS", "DESIGN">>}]
    /\ \E cfg \in TargetRoleConfigs :
          articles = [a \in ArticleIds |->
                        IF a = 1
                        THEN NewArticle(<<[role |-> "FRONTEND", weight |-> 50],
                                          [role |-> "DEVOPS", weight |-> 50]>>, 1, 8)
                        ELSE NewArticle(cfg, 40, 9)]

\* the article mutations of the article resolvers on the old article, and the
\* scorer on what they leave
NextCounters ==
    \/ \E save \in BOOLEAN : ToggleSave(2, save)
    \/ IncrementViews(2)
    \/ \E userId \in Users :
          ScoreArticle("p1", [dynamicRoles |-> users[userId].dynamicRoles,
                              topics |-> users[userId].topics], 2)

SpecCounters == InitCounters /\ [][NextCounters]_vars

\* ------------------------------------------ feed requests on their own
\* cursors and limits of the feed query: no cursor, "before article 2",
\* "before article 3"; the default limit and limit 1
FeedCursorsAll == {0, 2, 3}
FeedLimitsAll == {DefaultLimit, 1}

NextFeed ==
    \/ \E p \in Procs, userId \in Users, cursor \in FeedCursorsAll, limit \in FeedLimitsAll :
          FeedStart(p, userId, cursor, limit)
    \/ \E p \in Procs : FeedGetUser(p)
    \/ \E p \in Procs : FeedFindUser(p)
    \/ \E p \in Procs : FeedSetProfile(p)
    \/ \E p \in Procs : FeedCacheGet(p)
    \/ \E p \in Procs : FeedFind(p)
    \/ \E p \in Procs : FeedCacheSet(p)

SpecFeed == Init /\ [][NextFeed]_vars

\* getPersonalizedFeed(null, { limit, cursor }) with `if (user)` and
\* `user._id` but no guard around the cache write: user._id throws on null
getAnonymousFeed_noUserGuard(arts, store, up, cursor, limit) ==
    [outcome |-> "error", result |-> Absent, cacheStore |-> store]

\* feedService.getPersonalizedFeed(null, { limit, cursor }): both `if (user)`
\* branches are skipped; Article.find, then articles.slice(0, limit)
getAnonymousFeed(arts, store, up, cursor, limit) ==
    LET fetched == findArticles(arts, NewUser(<<>>), FALSE, cursor, limit)
        n == IF Len(fetched) < limit THEN Len(fetched) ELSE limit
    IN [outcome |-> "ok",
        result |-> [kind |-> "list", items |-> [i \in 1..n |-> [id |-> fetched[i]]]],
        cacheStore |-> store]

\* a caller without a user asks for the feed
AnonFeed(p, cursor, limit) ==
    /\ CanStart(p)
    /\ LET r == getAnonymousFeed(articles, cacheStore, redisUp, cursor, limit)
       IN /\ calls' = [calls EXCEPT ![p] =
                          [op |-> "anonFeed", pc |-> "returned", cursor |-> cursor,
                           limit |-> limit, result |-> r.result,
                           outcome |-> r.outcome, errorAt |-> "none"]]
          /\ cacheStore' = r.cacheStore
    /\ started' = started + 1
    /\ UNCHANGED <<users, articles, engagements, redisUp, env, batch,
                   history, lastUpdate, jobs, invalidated, viewCalls>>

\* anonymous feed calls next to the first-page requests of a logged-in user
NextAnon ==
    \/ \E p \in Procs, cursor \in FeedCursors, limit \in FeedLimitsAll :
          AnonFeed(p, cursor, limit)
    \/ \E p \in Procs : FeedStart(p, "u1", 0, DefaultLimit)
    \/ \E p \in Procs : FeedGetUser(p)
    \/ \E p \in Procs : FeedFindUser(p)
    \/ \E p \in Procs : FeedSetProfile(p)
    \/ \E p \in Procs : FeedCacheGet(p)
    \/ \E p \in Procs : FeedFind(p)
    \/ \E p \in Procs : FeedCacheSet(p)
    \/ RedisFail
    \/ RedisRecover

SpecAnon == Init /\ [][NextAnon]_vars

\* ================================================================ claims
AllWeightsAtLeastMin(roles) == \A i \in DOMAIN roles : roles[i].weight >= MIN_WEIGHT

C7_NullLeavesStateUntouched ==
    [][\A userId \in Users \cup {UnknownUser} :
          (/\ ComputeUserJob(userId)
           /\ \/ userId \notin Users
              \/ computeUserRoles(engagements, articles, userId,
                                  GroupOrderFor(engagements, articles, userId, env),
                                  env.tieUp) = <<>>)
          => /\ lastUpdate'.outcome = "null"
             /\ users' = users
             /\ cacheStore' = cacheStore]_vars

\* C7 witness: a user with views in the window whose articles target no
\* valid role got null, with a stored profile and a cached feed page
C7_Witness ==
    /\ lastUpdate.outcome = "null"
    /\ lastUpdate.userId = "u1"
    /\ MatchedRows(engagements, "u1") # {}
    /\ users["u1"].dynamicRoles = DefaultRoles
    /\ cacheStore[userFeed("u1", 0)] # Absent

CountOutcome(log, outcome) ==
    Cardinality({i \in DOMAIN log : log[i].outcome = outcome})

\* C8: updateAllUserRoles calls updateUserRoles once for every user with
\* engagement in the window, in spite of throws, never throws itself, and
\* returns usersProcessed = such users, errors = calls that threw,
\* usersUpdated = calls that returned a result.
C8_BatchCountsAndContinues ==
    /\ batch.pc \in {"idle", "loop"}
    /\ \A i \in DOMAIN history :
          LET h == history[i]
              active == {u \in Users : \E k \in EngKeys :
                            k.userId = u /\ k.recent /\ engagements[k] > 0}
          IN /\ {h.activeUserIds[j] : j \in DOMAIN h.activeUserIds} = active
             /\ Len(h.log) = Cardinality(active)
             /\ {h.log[j].userId : j \in DOMAIN h.log} = active
             /\ h.result.usersProcessed = Cardinality(active)
             /\ h.result.errors = CountOutcome(h.log, "threw")
             /\ h.result.usersUpdated = CountOutcome(h.log, "updated")
             /\ h.result.usersUpdated + h.result.errors <= h.result.usersProcessed

\* C8 witness: a finished run whose first user threw and whose second user
\* was updated all the same
C8_Witness ==
    \E i \in DOMAIN history :
        /\ Len(history[i].log) = 2
        /\ history[i].log[1].outcome = "threw"
        /\ history[i].log[2].outcome = "updated"
        /\ history[i].result.errors = 1

C1_FeedKeyAbsentAfterSaveOrShare ==
    [][\A p \in Procs :
          (SaveReturn(p) \/ ShareReturn(p))
              => cacheStore'[userFeed(calls[p].userId, 0)] = Absent]_vars

\* C3 (as claimed): once the invalidation that follows a write of u's profile
\* has completed, the key feed:user:{u}:page:0 never holds a page scored with
\* the profile as it was before that write
C3_NoPageOlderThanInvalidation ==
    \A u \in Users :
        cacheStore[userFeed(u, 0)] # Absent
            => cacheStore[userFeed(u, 0)].writeNo >= invalidated[u]

\* C4 (as claimed): a failing cache.get or cache.set never makes
\* getPersonalizedFeed throw
C4_FeedSurvivesCacheFailure ==
    \A p \in Procs :
        (calls[p].op = "feed" /\ calls[p].pc = "returned")
            => ~(calls[p].outcome = "error" /\ calls[p].errorAt \in {"feedGet", "feedSet"})

ViewRowsOf(u, a) ==
    engagements[EngKey(u, a, "VIEW", TRUE)] + engagements[EngKey(u, a, "VIEW", FALSE)]

\* C5 (as claimed): after n >= 1 completed viewArticle(u, a) calls, interleaved
\* or not, there is exactly one VIEW row of (u, a), and the views counter of a
\* has grown by the number of completed calls
C5_OneViewRowAndExactCount ==
    (\A p \in Procs : Free(p))
        => \A u \in Users, a \in ArticleIds :
              viewCalls[u][a] >= 1
                  => /\ ViewRowsOf(u, a) = 1
                     /\ articles[a].views
                        = SumOver(Users, [v \in Users |-> viewCalls[v][a]])

\* C6 (as claimed): a saveArticle call appends a SAVE row and adds 1 to saves,
\* a shareArticle call appends a SHARE row and adds 1 to shares, and after
\* either the key article:{a}:data is absent
C6_SaveShareAppendCountInvalidate ==
    [][\A p \in Procs :
          /\ SaveReturn(p)
                => /\ engagements'[EngKey(calls[p].userId, calls[p].articleId,
                                          "SAVE", TRUE)] = calls[p].before.rows + 1
                   /\ articles'[calls[p].articleId].saves = calls[p].before.counter + 1
                   /\ cacheStore'[articleKey(calls[p].articleId)] = Absent
          /\ ShareReturn(p)
                => /\ engagements'[EngKey(calls[p].userId, calls[p].articleId,
                                          "SHARE", TRUE)] = calls[p].before.rows + 1
                   /\ articles'[calls[p].articleId].shares = calls[p].before.counter + 1
                   /\ cacheStore'[articleKey(calls[p].articleId)] = Absent]_vars

\* a role profile that satisfies the role weight invariant: weights >= 0.05,
\* summing to 1, one entry per role, sorted descending
ValidProfile(p) ==
    /\ AllWeightsAtLeastMin(p)
    /\ SumWeights(p) = 100
    /\ \A i, j \in DOMAIN p : p[i].role = p[j].role => i = j
    /\ \A i, j \in DOMAIN p : i < j => p[i].weight >= p[j].weight

\* C11 (as claimed): for valid previous and computed profiles, the result of
\* smoothRoles has every weight >= 0.05, weights that sum to 1 (up to half a
\* hundredth of rounding per role) and at most one entry per role
C11_SmoothedProfileIsValid ==
    (/\ lastUpdate.outcome = "smoothed"
     /\ ValidProfile(lastUpdate.previousRoles)
     /\ ValidProfile(lastUpdate.computedRoles))
        => LET r == lastUpdate.newRoles
           IN /\ AllWeightsAtLeastMin(r)
              /\ 2 * SumWeights(r) >= 200 - Len(r)
              /\ 2 * SumWeights(r) <= 200 + Len(r)
              /\ \A i, j \in DOMAIN r : r[i].role = r[j].role => i = j

\* C12: for a valid profile p, smoothRoles(p, p) = p, however often it is
\* applied again to its result
C12_SmoothingFixedPoint ==
    (/\ lastUpdate.outcome = "smoothed"
     /\ lastUpdate.previousRoles = lastUpdate.computedRoles
     /\ ValidProfile(lastUpdate.previousRoles))
        => lastUpdate.newRoles = lastUpdate.previousRoles

\* C12 witness: smoothRoles(p, p) was applied to a three-role profile with
\* distinct weights
C12_Witness ==
    /\ lastUpdate.outcome = "smoothed"
    /\ lastUpdate.previousRoles = lastUpdate.computedRoles
    /\ Len(lastUpdate.previousRoles) = 3
    /\ lastUpdate.previousRoles[1].weight > lastUpdate.previousRoles[2].weight
    /\ lastUpdate.previousRoles[2].weight > lastUpdate.previousRoles[3].weight
    /\ lastUpdate.newRoles = lastUpdate.previousRoles

\* C13 (as claimed): whatever the counter operations left in the store,
\* calculateRelevanceScore returns an integer from 0 to 100
C13_ScoreWithinBounds ==
    \A p \in Procs :
        calls[p].op = "score" => (calls[p].score >= 0 /\ calls[p].score <= 100)

\* b is a with the weight of exactly one entry raised
RaisedOne(a, b) ==
    /\ Len(a) = Len(b)
    /\ \E i \in DOMAIN a :
          /\ b[i].role = a[i].role
          /\ b[i].weight > a[i].weight
          /\ \A j \in DOMAIN a : j # i => b[j] = a[j]

\* C14: with the article, the time, the topics and the other weights the same,
\* a call with one role weight raised never returns less than the call before
C14_ScoreMonotoneInRoleWeight ==
    [][(/\ calls["p1"].op = "score"
        /\ calls'["p1"].op = "score"
        /\ calls'["p1"].articleId = calls["p1"].articleId
        /\ calls'["p1"].article = calls["p1"].article
        /\ calls'["p1"].daysOld = calls["p1"].daysOld
        /\ calls'["p1"].user.topics = calls["p1"].user.topics
        /\ RaisedOne(calls["p1"].user.dynamicRoles, calls'["p1"].user.dynamicRoles))
          => calls'["p1"].score >= calls["p1"].score]_vars

\* C14 witness: FRONTEND raised from 0.6 to 0.7 scored 34 on the fresh
\* FRONTEND/DEVOPS article, which scores 32 at 0.6
C14_Witness ==
    /\ calls["p1"].op = "score"
    /\ calls["p1"].user.dynamicRoles
         = <<[role |-> "FRONTEND", weight |-> 70], [role |-> "BACKEND", weight |-> 40]>>
    /\ calls["p1"].articleId = 1
    /\ calls["p1"].daysOld = 0
    /\ calls["p1"].article.tags = <<>>
    /\ calls["p1"].score = 34

\* C15 (as claimed): two calls of calculateRelevanceScore with the same role
\* profile, topics and article return the same score, whenever they run
C15_ScoreDependsOnArgumentsOnly ==
    [][(/\ calls["p1"].op = "score"
        /\ calls'["p1"].op = "score"
        /\ calls'["p1"].user = calls["p1"].user
        /\ calls'["p1"].articleId = calls["p1"].articleId
        /\ calls'["p1"].article = calls["p1"].article)
          => calls'["p1"].score = calls["p1"].score]_vars

\* min(1, sum over the roles the profile and the article share of
\* userWeight * articleWeight), in 1/10000
SharedRoleAlignment(userRoles, articleRoles) ==
    LET shared == RolesOf(userRoles) \cap RolesOf(articleRoles)
        sum == SumOver(shared, [r \in shared |->
                                   WeightOf(userRoles, r) * WeightOf(articleRoles, r)])
    IN IF sum < 10000 THEN sum ELSE 10000

\* C16: the score is round(100 * (0.40 roleAlignment + 0.30 tagMatch
\* + 0.20 freshness + 0.10 engagement)), and the profile [FRONTEND 0.6,
\* BACKEND 0.4] on the article [FRONTEND 0.5, DEVOPS 0.5] without tags,
\* published now, never viewed or saved, scores 32
C16_ScoreFormulaAndExample ==
    calls["p1"].op = "score"
        => LET c == calls["p1"]
               a == [c.article EXCEPT !.targetRoles = c.article.targetRoles] @@
                    [daysOld |-> c.daysOld]
               tm == calculateTagMatch(c.user.topics, a.tags)
               hundredTimesTotal ==
                   [num |-> 40 * SharedRoleAlignment(c.user.dynamicRoles, a.targetRoles)
                                 * tm.den
                            + 30 * 10000 * tm.num
                            + 20 * 100 * calculateFreshness(a) * tm.den
                            + 10 * calculateEngagement(a) * tm.den,
                    den |-> 10000 * tm.den]
           IN /\ c.score = RoundDiv(hundredTimesTotal.num, hundredTimesTotal.den,
                                    env.tieUp)
              /\ (/\ c.user.dynamicRoles
                       = <<[role |-> "FRONTEND", weight |-> 60],
                           [role |-> "BACKEND", weight |-> 40]>>
                  /\ a.targetRoles
                       = <<[role |-> "FRONTEND", weight |-> 50],
                           [role |-> "DEVOPS", weight |-> 50]>>
                  /\ a.tags = <<>> /\ a.daysOld = 0 /\ a.views = 0 /\ a.saves = 0)
                 => c.score = 32

\* C16 witness: the example has been scored
C16_Witness ==
    /\ calls["p1"].op = "score"
    /\ calls["p1"].user.dynamicRoles
         = <<[role |-> "FRONTEND", weight |-> 60], [role |-> "BACKEND", weight |-> 40]>>
    /\ calls["p1"].articleId = 1
    /\ calls["p1"].article.tags = <<>>
    /\ calls["p1"].daysOld = 0
    /\ calls["p1"].score = 32

\* C17 (as claimed): a feed call with a cursor is never answered at the cache
\* lookup, and what it returns holds only articles with id < cursor
C17_CursorCallsBypassCache ==
    [][\A p \in Procs :
          (FeedCacheGet(p) /\ calls[p].cursor # 0)
              => /\ calls'[p].pc # "returned"
                 /\ (calls'[p].result # Absent
                        => \A i \in DOMAIN calls'[p].result.items :
                              calls'[p].result.items[i].id < calls[p].cursor)]_vars

\* C18 (as claimed): every list a logged-in user's feed call returns has at
\* most limit articles, in non-increasing order of relevanceScore
C18_AtMostLimitSortedByScore ==
    \A p \in Procs :
        (calls[p].op = "feed" /\ calls[p].pc = "returned" /\ calls[p].outcome = "ok")
            => LET items == calls[p].result.items
               IN /\ Len(items) <= calls[p].limit
                  /\ \A i, j \in DOMAIN items :
                        i < j => items[i].relevanceScore >= items[j].relevanceScore

\* C19: an anonymous feed call leaves the cache as it was, succeeds whether
\* Redis is up or not, and returns the first limit candidates of the source
\* query in the query's order, without relevanceScore
C19_AnonymousFeedBypassesCache ==
    [][\A p \in Procs, cursor \in FeedCursors, limit \in FeedLimitsAll :
          AnonFeed(p, cursor, limit)
              => LET candidates == findArticles(articles, NewUser(<<>>), FALSE,
                                                cursor, limit)
                     items == calls'[p].result.items
                 IN /\ cacheStore' = cacheStore
                    /\ calls'[p].outcome = "ok"
                    /\ Len(items) = IF Len(candidates) < limit
                                    THEN Len(candidates) ELSE limit
                    /\ \A i \in DOMAIN items : items[i] = [id |-> candidates[i]]]_vars

\* C19 witness: an anonymous call with limit 1 returned one article while
\* Redis was down and the user's page 0 was cached
C19_Witness ==
    \E p \in Procs :
        /\ calls[p].op = "anonFeed"
        /\ calls[p].outcome = "ok"
        /\ calls[p].limit = 1
        /\ Len(calls[p].result.items) = 1
        /\ ~redisUp
        /\ cacheStore[userFeed("u1", 0)] # Absent


\* ------------------------------------------------------- trending service
\* WEIGHTS of the trending service
WEIGHTS == [views |-> 1, saves |-> 3, shares |-> 5]

\* Math.pow(hoursOld + 2, GRAVITY) with GRAVITY 1.8, in hundredths, for an age
\* of 0 .. 30 whole days (the widest window keeps nothing older)
PenaltyTable ==
    <<348, 35233, 114326, 231535, 383890, 569440, 786747, 1034685, 1312330,
      1618906, 1953744, 2316258, 2705929, 3122291, 3564922, 4033438, 4527486,
      5046740, 5590897, 6159676, 6752812, 7370058, 8011181, 8675961, 9364188,
      10075664, 10810202, 11567621, 12347750, 13150424, 13975487>>

timePenalty(hoursOld) == PenaltyTable[(hoursOld \div 24) + 1]

\* the $addFields stages of computeTrending: hoursOld and rawScore, and the
\* fields of the $project; trendingScore is rawScore / timePenalty(hoursOld)
TrendingItem(arts, a) ==
    [articleId |-> a, views |-> arts[a].views, saves |-> arts[a].saves,
     hoursOld |-> 24 * arts[a].daysOld,
     rawScore |-> arts[a].views * WEIGHTS.views + arts[a].saves * WEIGHTS.saves
                  + arts[a].shares * WEIGHTS.shares]

\* x.trendingScore > y.trendingScore, the quotients compared by cross products
TrendsAbove(x, y) ==
    x.rawScore * timePenalty(y.hoursOld) > y.rawScore * timePenalty(x.hoursOld)

RECURSIVE InsertByTrend(_, _)
InsertByTrend(sorted, r) ==
    IF sorted = <<>> THEN <<r>>
    ELSE IF TrendsAbove(r, Head(sorted))
         THEN <<r>> \o sorted
         ELSE <<Head(sorted)>> \o InsertByTrend(Tail(sorted), r)

RECURSIVE SortByTrendDesc(_)
\* { $sort: { trendingScore: -1 } }, equal scores left in document order
SortByTrendDesc(s) ==
    IF s = <<>> THEN <<>>
    ELSE InsertByTrend(SortByTrendDesc(SubSeq(s, 1, Len(s) - 1)), s[Len(s)])

RECURSIVE InIdOrder(_)
\* documents in the order of the collection
InIdOrder(ids) ==
    IF ids = {} THEN <<>>
    ELSE LET first == CHOOSE a \in ids : \A b \in ids : a <= b
         IN <<first>> \o InIdOrder(ids \ {first})

\* { $limit: limit } and slice(0, limit)
FirstN(s, limit) == SubSeq(s, 1, IF Len(s) < limit THEN Len(s) ELSE limit)

\* trendingService.computeTrending(days, limit): $match on the window, isActive
\* and qualityScore >= 5, then score, $sort, $limit, $project
computeTrending(arts, days, limit) ==
    LET matched == {a \in DOMAIN arts :
                       /\ arts[a].hasPublishedAt
                       /\ arts[a].daysOld <= days
                       /\ arts[a].isActive
                       /\ arts[a].qualityScore >= 5}
        items == [i \in 1..Cardinality(matched) |->
                     TrendingItem(arts, InIdOrder(matched)[i])]
    IN FirstN(SortByTrendDesc(items), limit)

\* what cache.set stores under a trending key
TrendingEntry(list) ==
    [kind |-> "trending", articles |-> list, ttl |-> cacheTTL.trending]

RECURSIVE InsertByViews(_, _)
InsertByViews(sorted, r) ==
    IF sorted = <<>> THEN <<r>>
    ELSE IF \/ r.views > Head(sorted).views
            \/ r.views = Head(sorted).views /\ r.saves > Head(sorted).saves
         THEN <<r>> \o sorted
         ELSE <<Head(sorted)>> \o InsertByViews(Tail(sorted), r)

RECURSIVE SortByViewsDesc(_)
\* .sort({ views: -1, saves: -1 })
SortByViewsDesc(s) ==
    IF s = <<>> THEN <<>>
    ELSE InsertByViews(SortByViewsDesc(SubSeq(s, 1, Len(s) - 1)), s[Len(s)])

\* the Article.find of feedService.getTrending: the window, qualityScore >= 7,
\* isActive, sorted by views then saves, limited
findTrending(arts, days, limit) ==
    LET matched == {a \in DOMAIN arts :
                       /\ arts[a].hasPublishedAt
                       /\ arts[a].daysOld <= days
                       /\ arts[a].qualityScore >= 7
                       /\ arts[a].isActive}
        docs == [i \in 1..Cardinality(matched) |->
                    [articleId |-> InIdOrder(matched)[i],
                     views |-> arts[InIdOrder(matched)[i]].views,
                     saves |-> arts[InIdOrder(matched)[i]].saves]]
    IN FirstN(SortByViewsDesc(docs), limit)

\* the 'compute' processor of the trending queue takes one job at a time
NoTrendingJob ==
    \A q \in Procs : calls[q].op = "computeAllPeriods" => calls[q].pc = "returned"

\* trendingService.computeAllPeriods() is entered: results = {}
AllPeriodsStart(p) ==
    /\ CanStart(p)
    /\ NoTrendingJob
    /\ calls' = [calls EXCEPT ![p] =
                    [op |-> "computeAllPeriods", pc |-> "compute", next |-> 1,
                     articles |-> <<>>, computed |-> <<>>, replaced |-> <<>>,
                     results |-> <<>>, outcome |-> "none", errorAt |-> "none"]]
    /\ started' = started + 1
    /\ UNCHANGED <<users, articles, engagements, cacheStore, redisUp, env, batch,
                   history, lastUpdate, jobs, invalidated, viewCalls>>

\* const articles = await this.computeTrending(period.days, 50)
AllPeriodsCompute(p) ==
    /\ calls[p].op = "computeAllPeriods"
    /\ calls[p].pc = "compute"
    /\ LET found == computeTrending(articles, TrendingPeriods[calls[p].next].days, 50)
       IN calls' = [calls EXCEPT ![p] =
                       [@ EXCEPT !.pc = "set", !.articles = found,
                                 !.computed = Append(@, found)]]
    /\ UNCHANGED <<users, articles, engagements, cacheStore, redisUp, env, batch,
                   history, lastUpdate, jobs, started, invalidated, viewCalls>>

\* await cache.set(cacheKeys.trending(period.days), articles, cacheTTL.trending);
\* results[period.name] = articles.length; after the last period the counts
\* are returned. cache.set rejects when Redis is down and the call throws.
\* replaced keeps what each key held when it was written.
AllPeriodsSet(p) ==
    /\ calls[p].op = "computeAllPeriods"
    /\ calls[p].pc = "set"
    /\ LET cacheKey == trendingKey(TrendingPeriods[calls[p].next].days)
           last == calls[p].next = Len(TrendingPeriods)
       IN IF redisUp
          THEN /\ cacheStore' = cacheSet(cacheStore, cacheKey,
                                         TrendingEntry(calls[p].articles))
               /\ calls' = [calls EXCEPT ![p] =
                               [@ EXCEPT !.pc = IF last THEN "returned" ELSE "compute",
                                         !.outcome = IF last THEN "ok" ELSE "none",
                                         !.next = IF last THEN @ ELSE @ + 1,
                                         !.replaced = Append(@, cacheGet(cacheStore,
                                                                        cacheKey)),
                                         !.results = Append(@, Len(calls[p].articles))]]
          ELSE /\ calls' = [calls EXCEPT ![p] = Returned(@, "error", "set")]
               /\ UNCHANGED cacheStore
    /\ UNCHANGED <<users, articles, engagements, redisUp, env, batch,
                   history, lastUpdate, jobs, started, invalidated, viewCalls>>

\* trendingService.getTrending(days, limit): a hit returns cached.slice(0, limit)
\* and writes nothing; a miss computes with the caller's limit and caches that
\* (cache.get rejects when Redis is down)
GetTrending(days, limit) ==
    /\ redisUp
    /\ cacheGet(cacheStore, trendingKey(days)) = Absent
    /\ cacheStore' = cacheSet(cacheStore, trendingKey(days),
                              TrendingEntry(computeTrending(articles, days, limit)))
    /\ UNCHANGED <<users, articles, engagements, redisUp, env, calls, batch,
                   history, lastUpdate, jobs, started, invalidated, viewCalls>>

\* feedService.getTrending(days, limit): the same key; a hit returns what is
\* cached, a miss caches the result of its own query
FeedGetTrending(days, limit) ==
    /\ redisUp
    /\ cacheGet(cacheStore, trendingKey(days)) = Absent
    /\ cacheStore' = cacheSet(cacheStore, trendingKey(days),
                              TrendingEntry(findTrending(articles, days, limit)))
    /\ UNCHANGED <<users, articles, engagements, redisUp, env, calls, batch,
                   history, lastUpdate, jobs, started, invalidated, viewCalls>>

\* the limit a caller of getTrending names: shorter than the lists of the job
TrendingLimits == {1}

\* the limit feedService.getTrending is called with by default
FeedTrendingLimits == {10}

\* two articles of different ages, the second possibly below the quality floor
InitTrending ==
    /\ NothingRunning
    /\ lastUpdate = NoCall
    /\ users = [u \in Users |-> NewUser(DefaultRoles)]
    /\ env \in [tieUp : BOOLEAN, groupOrder : {<<"FRONTEND", "DEVOPS", "DESIGN">>}]
    /\ \E age1 \in {0, 5}, age2 \in {20}, quality \in {4, 9}, shares \in {1} :
          articles = [a \in ArticleIds |->
                        IF a = 1
                        THEN NewArticle(<<[role |-> "FRONTEND", weight |-> 50],
                                          [role |-> "DEVOPS", weight |-> 50]>>, age1, 8)
                        ELSE [NewArticle(<<[role |-> "DEVOPS", weight |-> 100]>>,
                                         age2, quality)
                              EXCEPT !.shares = shares]]

\* the hourly job next to the readers of the trending keys and the view counter
NextTrending ==
    \/ AllPeriodsStart("p1")
    \/ AllPeriodsCompute("p1")
    \/ AllPeriodsSet("p1")
    \/ \E days \in TrendingDays, limit \in TrendingLimits : GetTrending(days, limit)
    \/ \E days \in TrendingDays, limit \in FeedTrendingLimits : FeedGetTrending(days, limit)
    \/ IncrementViews(1)
    \/ RedisFail
    \/ RedisRecover

SpecTrending == InitTrending /\ [][NextTrending]_vars

computeTrendingByRole(arts, role, days, limit) ==
    LET matched == {a \in DOMAIN arts :
                       /\ arts[a].hasPublishedAt
                       /\ arts[a].daysOld <= days
                       /\ arts[a].isActive
                       /\ arts[a].qualityScore >= 5
                       /\ role \in RolesOf(arts[a].targetRoles)}
        items == [i \in 1..Cardinality(matched) |->
                     TrendingItem(arts, InIdOrder(matched)[i])]
    IN FirstN(SortByTrendDesc(items), limit)

\* trendingService.getTrendingByRole(role, days, limit): a hit returns
\* cached.slice(0, limit) and writes nothing; a miss caches the list computed
\* with the caller's limit for 30 * 60 seconds (cache.get rejects when Redis is down)
GetTrendingByRole(role, days, limit) ==
    /\ redisUp
    /\ cacheGet(cacheStore, trendingRoleKey(role, days)) = Absent
    /\ cacheStore' = cacheSet(cacheStore, trendingRoleKey(role, days),
                              [kind |-> "trending",
                               articles |-> computeTrendingByRole(articles, role, days,
                                                                  limit),
                               ttl |-> 30 * 60])
    /\ UNCHANGED <<users, articles, engagements, redisUp, env, calls, batch,
                   history, lastUpdate, jobs, started, invalidated, viewCalls>>

\* role trending on demand next to the writers of the period keys
NextRoleTrending ==
    \/ \E role \in TrendingRoles, days \in RoleTrendingDays, limit \in TrendingLimits :
          GetTrendingByRole(role, days, limit)
    \/ AllPeriodsStart("p1")
    \/ AllPeriodsCompute("p1")
    \/ AllPeriodsSet("p1")
    \/ \E days \in TrendingDays, limit \in TrendingLimits : GetTrending(days, limit)
    \/ IncrementViews(1)
    \/ RedisFail
    \/ RedisRecover

SpecRoleTrending == InitTrending /\ [][NextRoleTrending]_vars

RoleTrendingKeys ==
    {trendingRoleKey(role, days) : role \in TrendingRoles, days \in RoleTrendingDays}

PeriodTrendingKeys == {trendingKey(days) : days \in TrendingDays}

\* C21: role trending is cached under keys no period writer uses, and every
\* entry under such a key was stored with a time to live strictly shorter than
\* the one of the period keys.
C21_RoleTrendingSeparateShorterTTL ==
    /\ RoleTrendingKeys \cap PeriodTrendingKeys = {}
    /\ \A k \in RoleTrendingKeys :
          cacheStore[k] # Absent => cacheStore[k].ttl < cacheTTL.trending


\* ------------------------------------------------------- gravity score
\* calculateScore with the time penalty left out
calculateScore_noDecay(views, saves, shares, hoursOld) ==
    [rawScore |-> views * WEIGHTS.views + saves * WEIGHTS.saves
                  + shares * WEIGHTS.shares,
     timePenalty |-> 100]

\* trendingService.calculateScore(views, saves, shares, hoursOld): the quotient
\* rawScore / timePenalty kept as its two terms (timePenalty in hundredths)
calculateScore(views, saves, shares, hoursOld) ==
    [rawScore |-> views * WEIGHTS.views + saves * WEIGHTS.saves
                  + shares * WEIGHTS.shares,
     timePenalty |-> timePenalty(hoursOld)]

\* x < y and x = y for two such quotients (both penalties are positive)
ScoreLess(x, y) == x.rawScore * y.timePenalty < y.rawScore * x.timePenalty

ScoreEqual(x, y) == x.rawScore * y.timePenalty = y.rawScore * x.timePenalty

\* the ages calculateScore is called with: whole days up to the widest window
GravityHours == {24 * d : d \in 0..30}

\* calculateScore on the counters of article 1 at some age; before keeps the
\* age and the result of the call that preceded it
CalculateScore(p, hoursOld) ==
    /\ calls' = [calls EXCEPT ![p] =
                    [op |-> "calculateScore", pc |-> "returned",
                     views |-> articles[1].views, saves |-> articles[1].saves,
                     shares |-> articles[1].shares, hoursOld |-> hoursOld,
                     score |-> calculateScore(articles[1].views, articles[1].saves,
                                              articles[1].shares, hoursOld),
                     before |-> IF calls[p].op = "calculateScore"
                                THEN <<[hoursOld |-> calls[p].hoursOld,
                                        score |-> calls[p].score]>>
                                ELSE <<>>,
                     outcome |-> "ok", errorAt |-> "none"]]
    /\ UNCHANGED <<users, articles, engagements, cacheStore, redisUp, env, batch,
                   history, lastUpdate, jobs, started, invalidated, viewCalls>>

\* an article with some engagement counters, none of them negative
InitGravity ==
    /\ NothingRunning
    /\ lastUpdate = NoCall
    /\ users = [u \in Users |-> NewUser(DefaultRoles)]
    /\ env \in [tieUp : BOOLEAN, groupOrder : {<<"FRONTEND", "DEVOPS", "DESIGN">>}]
    /\ \E views \in {0, 1, 10}, saves \in {0, 2}, shares \in {0, 1} :
          articles = [a \in ArticleIds |->
                        IF a = 1
                        THEN [NewArticle(<<[role |-> "FRONTEND", weight |-> 50],
                                           [role |-> "DEVOPS", weight |-> 50]>>, 1, 8)
                              EXCEPT !.views = views, !.saves = saves,
                                     !.shares = shares]
                        ELSE NewArticle(<<[role |-> "DEVOPS", weight |-> 100]>>, 2, 9)]

NextGravity == \E hoursOld \in GravityHours : CalculateScore("p1", hoursOld)

SpecGravity == InitGravity /\ [][NextGravity]_vars

\* a call of calculateScore on the same counters as the call before it, at a
\* greater age
LaterCall(p) ==
    /\ calls[p].op = "calculateScore"
    /\ calls[p].before # <<>>
    /\ calls[p].before[1].hoursOld < calls[p].hoursOld

\* C22, as amended: for fixed non-negative counts and h1 < h2 the score at h2
\* is strictly less than the score at h1 when some count is positive, and both
\* scores are 0 when all counts are 0.
C22_ScoreDecaysWhenEngaged ==
    \A p \in Procs :
        LaterCall(p) =>
            IF calls[p].score.rawScore > 0
            THEN ScoreLess(calls[p].score, calls[p].before[1].score)
            ELSE /\ calls[p].score.rawScore = 0
                 /\ ScoreEqual(calls[p].score, calls[p].before[1].score)

C22_Witness ==
    \E p \in Procs :
        /\ LaterCall(p)
        /\ calls[p].score.rawScore > 0
        /\ calls[p].shares > 0
        /\ ScoreLess(calls[p].score, calls[p].before[1].score)

\* C22 as stated: for every fixed non-negative counts and h1 < h2 the score at
\* h2 is strictly less than the score at h1.
C22_ScoreStrictlyDecreases ==
    \A p \in Procs :
        LaterCall(p) => ScoreLess(calls[p].score, calls[p].before[1].score)


\* C23: whatever calls of incrementViews and toggleSave (and of the engagement
\* service) have run, every article's views, saves and shares are >= 0.
C23_CountersNonNegative ==
    \A a \in ArticleIds :
        /\ articles[a].views >= 0
        /\ articles[a].saves >= 0
        /\ articles[a].shares >= 0


\* ------------------------------------------------------- views next to the cache
\* view requests of u1 next to u1's first-page feed requests, which fill the
\* profile key and the feed key, and the article lookups that fill article keys
NextViewCached ==
    \/ \E p \in Procs, articleId \in ArticleIds : ViewMatch(p, "u1", articleId)
    \/ \E p \in Procs : ViewUpsert(p)
    \/ \E p \in Procs : ViewInc(p)
    \/ \E p \in Procs : ViewReturn(p)
    \/ \E p \in Procs : FeedStart(p, "u1", 0, DefaultLimit)
    \/ \E p \in Procs : FeedGetUser(p)
    \/ \E p \in Procs : FeedFindUser(p)
    \/ \E p \in Procs : FeedSetProfile(p)
    \/ \E p \in Procs : FeedCacheGet(p)
    \/ \E p \in Procs : FeedFind(p)
    \/ \E p \in Procs : FeedCacheSet(p)
    \/ \E articleId \in ArticleIds : GetArticleById(articleId)
    \/ RedisFail
    \/ RedisRecover

SpecViewCached == Init /\ [][NextViewCached]_vars

\* C24: no step of engagementService.viewArticle(u, a) changes the cache: every
\* key, feed:user:{u}:page:0 among them, keeps its presence and its content.
C24_ViewLeavesCacheAlone ==
    [][(\/ \E p \in Procs, userId \in Users, articleId \in ArticleIds :
              ViewMatch(p, userId, articleId)
        \/ \E p \in Procs : ViewUpsert(p) \/ ViewInc(p) \/ ViewReturn(p))
       => cacheStore' = cacheStore]_vars

\* a completed view by u1 while u1's first page is cached
C24_Witness ==
    \E p \in Procs :
        /\ calls[p].op = "view"
        /\ calls[p].outcome = "ok"
        /\ calls[p].userId = "u1"
        /\ articles[calls[p].articleId].views > 0
        /\ cacheStore[userFeed("u1", 0)] # Absent


\* ------------------------------------------------------- smoothRoles, role set
\* the roles the claim expects in the result: those of computed, and those of
\* previous missing from computed whose weight times 0.3 is at least 0.05
ExpectedRoles(previous, computed) ==
    RolesOf(computed)
    \cup {r \in RolesOf(previous) \ RolesOf(computed) :
             (100 - SMOOTHING_FACTOR) * PrevWeight(previous, r) >= MIN_WEIGHT * 100}

SortedDescending(roles) ==
    \A i, j \in DOMAIN roles : i < j => roles[i].weight >= roles[j].weight

\* C25, as amended: for non-empty previous the result has exactly the expected
\* roles, each computed role enters the normalization with
\* 0.7 * computed + 0.3 * previous rounded to two decimals, and the result is
\* sorted by non-increasing weight.
C25_SmoothedRoleSetAndRoundedBlend ==
    (lastUpdate.outcome = "smoothed" /\ lastUpdate.previousRoles # <<>>)
        => LET previous == lastUpdate.previousRoles
               computed == lastUpdate.computedRoles
               smoothed == smoothedRoles(previous, computed, env.tieUp)
           IN /\ RolesOf(lastUpdate.newRoles) = ExpectedRoles(previous, computed)
              /\ Len(lastUpdate.newRoles) = Cardinality(ExpectedRoles(previous, computed))
              /\ \A i \in DOMAIN computed :
                    LET exact == SMOOTHING_FACTOR * computed[i].weight
                                 + (100 - SMOOTHING_FACTOR)
                                   * PrevWeight(previous, computed[i].role)
                    IN /\ smoothed[i].role = computed[i].role
                       /\ 100 * smoothed[i].weight - exact <= 50
                       /\ exact - 100 * smoothed[i].weight <= 50
              /\ SortedDescending(lastUpdate.newRoles)

\* a call that kept one role of previous by decay, dropped another, and blended
\* a role present on both sides
C25_Witness ==
    /\ lastUpdate.outcome = "smoothed"
    /\ lastUpdate.previousRoles # <<>>
    /\ \E r \in RolesOf(lastUpdate.previousRoles) \ RolesOf(lastUpdate.computedRoles) :
          r \in RolesOf(lastUpdate.newRoles)
    /\ \E r \in RolesOf(lastUpdate.previousRoles) \ RolesOf(lastUpdate.computedRoles) :
          r \notin RolesOf(lastUpdate.newRoles)
    /\ RolesOf(lastUpdate.previousRoles) \cap RolesOf(lastUpdate.computedRoles) # {}

\* C25 as stated: the same, with each computed role entering the normalization
\* with exactly 0.7 * computed + 0.3 * previous.
C25_SmoothedRoleSetAndExactBlend ==
    (lastUpdate.outcome = "smoothed" /\ lastUpdate.previousRoles # <<>>)
        => LET previous == lastUpdate.previousRoles
               computed == lastUpdate.computedRoles
               smoothed == smoothedRoles(previous, computed, env.tieUp)
           IN /\ RolesOf(lastUpdate.newRoles) = ExpectedRoles(previous, computed)
              /\ \A i \in DOMAIN computed :
                    /\ smoothed[i].role = computed[i].role
                    /\ 100 * smoothed[i].weight
                       = SMOOTHING_FACTOR * computed[i].weight
                         + (100 - SMOOTHING_FACTOR)
                           * PrevWeight(previous, computed[i].role)
              /\ SortedDescending(lastUpdate.newRoles)


\* ------------------------------------------------------- feed pagination
\* feedResolvers.Query.feed: hasMore = articles.length === (args.limit || 20)
hasMore(result, limit) == Len(result.items) = limit

\* feedResolvers.Query.feed: the _id of the last returned article when hasMore
\* and the page is not empty, else null (0)
nextCursor(result, limit) ==
    IF hasMore(result, limit) /\ Len(result.items) > 0
    THEN result.items[Len(result.items)].id
    ELSE 0

\* page sizes a client pages with
PagingLimits == {1, 2}

\* a client asks for the page after one it was returned, with that page's
\* nextCursor and the same limit
FeedNextPage(p) ==
    \E q \in Procs \ {p} :
        /\ calls[q].op = "feed"
        /\ calls[q].pc = "returned"
        /\ calls[q].outcome = "ok"
        /\ nextCursor(calls[q].result, calls[q].limit) # 0
        /\ FeedStart(p, calls[q].userId,
                     nextCursor(calls[q].result, calls[q].limit), calls[q].limit)

\* a client of u1 pages through the feed of a fixed corpus
NextPaging ==
    \/ \E p \in Procs, limit \in PagingLimits : FeedStart(p, "u1", 0, limit)
    \/ \E p \in Procs : FeedNextPage(p)
    \/ \E p \in Procs : FeedGetUser(p)
    \/ \E p \in Procs : FeedFindUser(p)
    \/ \E p \in Procs : FeedSetProfile(p)
    \/ \E p \in Procs : FeedCacheGet(p)
    \/ \E p \in Procs : FeedFind(p)
    \/ \E p \in Procs : FeedCacheSet(p)
    \/ RedisFail
    \/ RedisRecover

SpecPaging == Init /\ [][NextPaging]_vars

IdsOf(result) == {result.items[i].id : i \in DOMAIN result.items}

\* C26: a page fetched with the nextCursor of a returned page shares no article
\* with that page.
C26_NextPageRepeatsNothing ==
    \A p, q \in Procs :
        (/\ calls[p].op = "feed" /\ calls[p].pc = "returned" /\ calls[p].outcome = "ok"
         /\ calls[q].op = "feed" /\ calls[q].pc = "returned" /\ calls[q].outcome = "ok"
         /\ calls[p].userId = calls[q].userId
         /\ calls[p].limit = calls[q].limit
         /\ nextCursor(calls[p].result, calls[p].limit) # 0
         /\ calls[q].cursor = nextCursor(calls[p].result, calls[p].limit))
        => IdsOf(calls[p].result) \cap IdsOf(calls[q].result) = {}


\* ------------------------------------------------------- feed after a role update
\* updateUserRoles(u1) has written a profile that differs from the one before
RolesPersisted ==
    /\ lastUpdate.userId = "u1"
    /\ lastUpdate.outcome \in {"updated", "threw"}
    /\ lastUpdate.newRoles # lastUpdate.previousRoles
    /\ users["u1"].dynamicRoles = lastUpdate.newRoles

\* a feed request of u1 before any role job has run
FirstRequest ==
    /\ jobs = 0
    /\ FeedStart("p1", "u1", 0, DefaultLimit)

\* the 'compute-user' job of u1, before the later request has come in
RoleJob ==
    /\ calls["p2"].op = "idle"
    /\ ComputeUserJob("u1")

\* a feed request of u1 that comes in after the new roles were persisted
LaterRequest ==
    /\ RolesPersisted
    /\ FeedStart("p2", "u1", 0, DefaultLimit)

\* a request, the role job, the feed page reaching its TTL of 5 minutes (the
\* profile entry lives 30), then the next request
NextRefresh ==
    \/ FirstRequest
    \/ RoleJob
    \/ LaterRequest
    \/ \E p \in Procs : FeedGetUser(p)
    \/ \E p \in Procs : FeedFindUser(p)
    \/ \E p \in Procs : FeedSetProfile(p)
    \/ \E p \in Procs : FeedCacheGet(p)
    \/ \E p \in Procs : FeedFind(p)
    \/ \E p \in Procs : FeedCacheSet(p)
    \/ ExpireKey(userFeed("u1", 0))

SpecRefresh == InitBatch /\ [][NextRefresh]_vars

GravityList(list, days) ==
    /\ \A i \in DOMAIN list :
          /\ {"rawScore", "hoursOld"} \subseteq DOMAIN list[i]
          /\ list[i].hoursOld <= 24 * days
    /\ \A i, j \in DOMAIN list : i < j => ~TrendsAbove(list[j], list[i])

\* C28: whatever is stored under a period key trending:articles:{d}days is a
\* list of the gravity computation for d, whoever wrote it last.
C28_PeriodKeysHoldGravityLists ==
    \A days \in TrendingDays :
        cacheStore[trendingKey(days)] # Absent
            => GravityList(cacheStore[trendingKey(days)].articles, days)


\* ------------------------------------------------------- feed invalidation
\* feedService.invalidateUserFeed(userId): cache.delPattern(`feed:user:${userId}:*`),
\* first client.keys(pattern); with no key delPattern returns 0
InvalidateKeys(p, userId) ==
    /\ CanStart(p)
    /\ LET keys == keysMatching(cacheStore, feedUserKey(userId))
           call == [op |-> "invalidate", pc |-> "del", userId |-> userId,
                    keys |-> keys, outcome |-> "none", errorAt |-> "none"]
       IN calls' = [calls EXCEPT ![p] =
                       IF ~redisUp THEN Returned(call, "error", "delPattern")
                       ELSE IF keys = {} THEN Returned(call, "ok", "none")
                       ELSE call]
    /\ started' = started + 1
    /\ UNCHANGED <<users, articles, engagements, cacheStore, redisUp, env, batch,
                   history, lastUpdate, jobs, invalidated, viewCalls>>

\* cache.delPattern: client.del(...keys); invalidateUserFeed returns
InvalidateDel(p) ==
    /\ calls[p].op = "invalidate" /\ calls[p].pc = "del"
    /\ IF redisUp
       THEN /\ cacheStore' = delKeys(cacheStore, calls[p].keys)
            /\ calls' = [calls EXCEPT ![p] = Returned(@, "ok", "none")]
       ELSE /\ calls' = [calls EXCEPT ![p] = Returned(@, "error", "delPattern")]
            /\ UNCHANGED cacheStore
    /\ UNCHANGED <<users, articles, engagements, redisUp, env, batch,
                   history, lastUpdate, jobs, started, invalidated, viewCalls>>

\* stores with both users' first pages cached and rows for the role engine
InitInvalidate ==
    /\ InitBatch
    /\ env.tieUp = FALSE
    /\ articles[2].targetRoles
          = <<[role |-> "FRONTEND", weight |-> 96], [role |-> "DEVOPS", weight |-> 4]>>
    /\ engagements[EngKey("u1", 1, "VIEW", TRUE)] = 1
    /\ engagements[EngKey("u1", 1, "SHARE", TRUE)] = 0
    /\ engagements[EngKey("u1", 2, "VIEW", TRUE)] = 1
    /\ engagements[EngKey("u2", 1, "VIEW", TRUE)] = 1

\* the three invalidations for u1, taken by one process, next to the feed
\* requests of both users and an article lookup, which fill profile, feed and
\* article keys
NextInvalidate ==
    \/ InvalidateKeys("p1", "u1")
    \/ InvalidateDel("p1")
    \/ \E input \in OnboardingInputs : OnboardingSave("p1", "u1", input)
    \/ OnboardingDelProfile("p1")
    \/ OnboardingKeys("p1")
    \/ OnboardingDel("p1")
    \/ ComputeUserJob("u1")
    \/ \E userId \in Users : FeedStart("p2", userId, 0, DefaultLimit)
    \/ FeedGetUser("p2")
    \/ FeedFindUser("p2")
    \/ FeedSetProfile("p2")
    \/ FeedCacheGet("p2")
    \/ FeedFind("p2")
    \/ FeedCacheSet("p2")
    \/ GetArticleById(1)

SpecInvalidate == InitInvalidate /\ [][NextInvalidate]_vars

\* a step of one of the invalidations for user u
InvalidationStep(u) ==
    \/ \E p \in Procs : InvalidateKeys(p, u)
    \/ \E p \in Procs :
          /\ calls[p].op \in {"invalidate", "onboarding"}
          /\ calls[p].userId = u
          /\ \/ InvalidateDel(p)
             \/ OnboardingDelProfile(p)
             \/ OnboardingKeys(p)
             \/ OnboardingDel(p)
    \/ ComputeUserJob(u)

\* the keys an invalidation for u may touch: u's feed keys and u's profile key
OwnKeys(u) ==
    {k \in CacheKeys : Len(k) >= 3 /\ SubSeq(k, 1, 3) = feedUserKey(u)}
    \cup {userProfile(u)}

\* C29: a step of invalidateUserFeed(u), completeOnboarding(u) or
\* updateUserRoles(u) leaves every cache key unchanged that is neither a feed key
\* of u nor u's profile key.
C29_InvalidationTouchesOwnKeysOnly ==
    [][\A u \in Users :
          InvalidationStep(u)
              => \A k \in CacheKeys \ OwnKeys(u) : cacheStore'[k] = cacheStore[k]]_vars

\* u1's pages were removed by an invalidation while u2's page, u2's profile and
\* an article entry stay cached
C29_Witness ==
    \E p \in Procs :
        /\ calls[p].op \in {"invalidate", "onboarding"}
        /\ calls[p].userId = "u1"
        /\ calls[p].pc = "returned"
        /\ calls[p].outcome = "ok"
        /\ calls[p].keys # {}
        /\ cacheStore[userFeed("u1", 0)] = Absent
        /\ cacheStore[userFeed("u2", 0)] # Absent
        /\ \E k \in CacheKeys \ (OwnKeys("u1") \cup OwnKeys("u2")) : cacheStore[k] # Absent


\* ------------------------------------------------------- rate limiter
\* ENDPOINT_LIMITS, the entry the model uses
ENDPOINT_LIMITS ==
    [requestPasswordReset |-> [windowMs |-> 60 * 60 * 1000, maxRequests |-> 3]]

LimitedOperation == "requestPasswordReset"

LimiterKey == rateLimitKey(LimitedOperation, "u1")

\* Math.ceil(config.windowMs / 1000)
WindowSeconds(config) == (config.windowMs + 999) \div 1000

\* a counter in Redis: its value and its time to live (-1: none, as TTL reports);
\* idle tells that a whole window went by since the last INCR
Counter(count, ttl, idle) == [kind |-> "counter", count |-> count, ttl |-> ttl,
                              idle |-> idle]

\* checkRateLimit: const current = await cache.incr(key). INCR creates a missing
\* key at 1 without a time to live. A rejected command is caught: fail open.
CheckIncr(p) ==
    /\ Free(p)
    /\ LET old == cacheGet(cacheStore, LimiterKey)
           current == IF old = Absent THEN 1 ELSE old.count + 1
           call == [op |-> "rateLimit", pc |-> IF current = 1 THEN "expire" ELSE "decide",
                    current |-> current,
                    afterIdle |-> old # Absent /\ old.idle,
                    outcome |-> "none", errorAt |-> "none"]
       IN IF redisUp
          THEN /\ current <= MaxCount
               /\ cacheStore' = cacheSet(cacheStore, LimiterKey,
                                         Counter(current,
                                                 IF old = Absent THEN -1 ELSE old.ttl,
                                                 FALSE))
               /\ calls' = [calls EXCEPT ![p] = call]
          ELSE /\ calls' = [calls EXCEPT ![p] =
                               Returned([call EXCEPT !.current = 0, !.afterIdle = FALSE],
                                        "allowed", "incr")]
               /\ UNCHANGED cacheStore
    /\ UNCHANGED <<users, articles, engagements, redisUp, env, batch,
                   history, lastUpdate, jobs, started, invalidated, viewCalls>>

\* if (current === 1) await cache.expire(key, Math.ceil(config.windowMs / 1000));
\* a rejected command is caught and the request is allowed
CheckExpire(p) ==
    /\ calls[p].op = "rateLimit" /\ calls[p].pc = "expire"
    /\ IF redisUp
       THEN /\ cacheStore' =
                  IF cacheGet(cacheStore, LimiterKey) = Absent THEN cacheStore
                  ELSE [cacheStore EXCEPT ![LimiterKey].ttl =
                           WindowSeconds(ENDPOINT_LIMITS[LimitedOperation])]
            /\ calls' = [calls EXCEPT ![p] = [@ EXCEPT !.pc = "decide"]]
       ELSE /\ calls' = [calls EXCEPT ![p] = Returned(@, "allowed", "expire")]
            /\ UNCHANGED cacheStore
    /\ UNCHANGED <<users, articles, engagements, redisUp, env, batch,
                   history, lastUpdate, jobs, started, invalidated, viewCalls>>

\* if (current > config.maxRequests): cache.ttl(key), allowed: false (the
\* limiter answers 429); else allowed: true. A rejected TTL command is caught.
CheckDecide(p) ==
    /\ calls[p].op = "rateLimit" /\ calls[p].pc = "decide"
    /\ calls' = [calls EXCEPT ![p] =
                    IF calls[p].current > ENDPOINT_LIMITS[LimitedOperation].maxRequests
                    THEN IF redisUp THEN Returned(@, "rejected", "none")
                         ELSE Returned(@, "allowed", "ttl")
                    ELSE Returned(@, "allowed", "none")]
    /\ UNCHANGED <<users, articles, engagements, cacheStore, redisUp, env, batch,
                   history, lastUpdate, jobs, started, invalidated, viewCalls>>

\* the API process stops while a request is between its commands
ProcessStops(p) ==
    /\ calls[p].op = "rateLimit" /\ calls[p].pc \in {"expire", "decide"}
    /\ calls' = [calls EXCEPT ![p] = Returned(@, "stopped", calls[p].pc)]
    /\ UNCHANGED <<users, articles, engagements, cacheStore, redisUp, env, batch,
                   history, lastUpdate, jobs, started, invalidated, viewCalls>>

\* the client sends nothing for one window: a counter with a time to live is
\* gone, one without stays
WindowPasses ==
    /\ \A p \in Procs : Free(p)
    /\ cacheGet(cacheStore, LimiterKey) # Absent
    /\ ~cacheGet(cacheStore, LimiterKey).idle
    /\ cacheStore' = IF cacheGet(cacheStore, LimiterKey).ttl > 0
                     THEN cacheDel(cacheStore, LimiterKey)
                     ELSE [cacheStore EXCEPT ![LimiterKey].idle = TRUE]
    /\ UNCHANGED <<users, articles, engagements, redisUp, env, calls, batch,
                   history, lastUpdate, jobs, started, invalidated, viewCalls>>

\* password-reset requests of one client through endpointRateLimiter
NextLimiter ==
    \/ \E p \in Procs : CheckIncr(p)
    \/ \E p \in Procs : CheckExpire(p)
    \/ \E p \in Procs : CheckDecide(p)
    \/ \E p \in Procs : ProcessStops(p)
    \/ WindowPasses
    \/ RedisFail
    \/ RedisRecover

SpecLimiter == Init /\ [][NextLimiter]_vars

\* no request that follows a window without requests is answered 429
ClientsRecover ==
    \A p \in Procs :
        (calls[p].op = "rateLimit" /\ calls[p].pc = "returned" /\ calls[p].afterIdle)
            => calls[p].outcome # "rejected"

\* C30: a counter key that exists carries an expiry once no request is between
\* its INCR and its EXPIRE, and a request that comes after a window without
\* requests is not rejected.
C30_CountersExpireAndClientsRecover ==
    /\ (\A p \in Procs : ~(calls[p].op = "rateLimit" /\ calls[p].pc = "expire"))
          => (cacheStore[LimiterKey] # Absent => cacheStore[LimiterKey].ttl > 0)
    /\ ClientsRecover

====
